---- MODULE Spec2Model ----
(***************************************************************************)
(* A model of the aggregation and reporting engine of nearai/analytics:    *)
(* the record model (fetch_value), the condition language (validation,     *)
(* check, formatting and parsing), metadata categorization, pruning, the   *)
(* grouping / aggregation conversion, the column selection tree, tables    *)
(* and their sorting, create_table, create_logs_list, the moving           *)
(* aggregation, and the MetricsCache of the service.                       *)
(*                                                                         *)
(* Python values are records [t, n, m, e, s]: t is the type tag, n the     *)
(* value of an int (the sign of a float), m and e the significand and the  *)
(* exponent of a float, s the text of a str.  A Python dict is a function  *)
(* from its keys to values; a missing key is a key outside the DOMAIN.     *)
(***************************************************************************)
EXTENDS Integers, Sequences, FiniteSets, TLC

VARIABLES
    data,                     \* the List[CanonicalMetricsEntry] handed to a conversion
    slices,                   \* AggregateConversion.slices
    absent_metrics_strategy,  \* AggregateConversion.absent_metrics_strategy
    conditions_str,           \* the text handed to parse_conditions, a sequence of characters
    op,                       \* the operation that ran last ("init" before any)
    arg,                      \* the argument that operation was applied to
    out,                      \* what that operation returned (or that it raised)
    prune_all_entries,        \* PruneConversion.prune_all_entries
    column_tree,              \* the ColumnNode tree of a table, by column_node_id
    params,                   \* the parameters of the request
    table,                    \* a Table: its rows, columns and sorted_by
    heap,                     \* the entry objects in memory, by object id
    cache,                    \* the MetricsCache: its _entries and _metrics_path
    callers                   \* the list each caller got from the cache

vars == <<data, slices, absent_metrics_strategy, conditions_str, op, arg, out, prune_all_entries, column_tree, params, table, heap, cache, callers>>

----------------------------------------------------------------------------
(* Bounds of the model. *)

MaxEntries == 3
MaxSlices == 2
MaxStrLen == 4
MaxValues == 3

----------------------------------------------------------------------------
(* Python values. *)

None == [t |-> "none", n |-> 0, m |-> <<>>, e |-> 0, s |-> ""]
Num(k) == [t |-> "num", n |-> k, m |-> <<>>, e |-> 0, s |-> ""]
Str(x) == [t |-> "str", n |-> 0, m |-> <<>>, e |-> 0, s |-> x]
Bool(b) == [t |-> "bool", n |-> IF b THEN 1 ELSE 0, m |-> <<>>, e |-> 0, s |-> ""]
\* The float sign * m * 2^e (sign is 0 for 0.0)
Float(sign, m, e) == [t |-> "float", n |-> sign, m |-> m, e |-> e, s |-> ""]

Abs(k) == IF k < 0 THEN -k ELSE k

----------------------------------------------------------------------------
(* Naturals of any size, for the significands of floats: little-endian     *)
(* sequences of limbs below LimbBase without a leading zero limb; <<>> is  *)
(* zero.                                                                   *)

LimbBits == 15
LimbBase == 2^LimbBits

RECURSIVE BigTrim(_)
BigTrim(a) ==
    IF a # <<>> /\ a[Len(a)] = 0 THEN BigTrim(SubSeq(a, 1, Len(a) - 1)) ELSE a

RECURSIVE BigOfInt(_)
BigOfInt(k) == IF k = 0 THEN <<>> ELSE <<k % LimbBase>> \o BigOfInt(k \div LimbBase)

RECURSIVE BigAdd(_, _, _)
BigAdd(a, b, carry) ==
    IF a = <<>> /\ b = <<>> THEN BigOfInt(carry)
    ELSE LET sum == (IF a = <<>> THEN 0 ELSE Head(a)) +
                    (IF b = <<>> THEN 0 ELSE Head(b)) + carry
         IN  <<sum % LimbBase>> \o
             BigAdd(IF a = <<>> THEN a ELSE Tail(a),
                    IF b = <<>> THEN b ELSE Tail(b), sum \div LimbBase)

RECURSIVE BigSubLoop(_, _, _)
BigSubLoop(a, b, borrow) ==
    IF a = <<>> THEN <<>>
    ELSE LET diff == Head(a) - (IF b = <<>> THEN 0 ELSE Head(b)) - borrow
         IN  <<(diff + LimbBase) % LimbBase>> \o
             BigSubLoop(Tail(a), IF b = <<>> THEN b ELSE Tail(b),
                        IF diff < 0 THEN 1 ELSE 0)

\* a - b, where a >= b
BigSub(a, b) == BigTrim(BigSubLoop(a, b, 0))

\* -1, 0 or 1 as a < b, a = b or a > b
RECURSIVE BigCmp(_, _)
BigCmp(a, b) ==
    IF Len(a) # Len(b) THEN (IF Len(a) < Len(b) THEN -1 ELSE 1)
    ELSE IF a = <<>> THEN 0
    ELSE IF a[Len(a)] # b[Len(b)] THEN (IF a[Len(a)] < b[Len(b)] THEN -1 ELSE 1)
    ELSE BigCmp(SubSeq(a, 1, Len(a) - 1), SubSeq(b, 1, Len(b) - 1))

\* a * k + carry, where k < LimbBase
RECURSIVE BigMulSmall(_, _, _)
BigMulSmall(a, k, carry) ==
    IF a = <<>> THEN BigOfInt(carry)
    ELSE LET p == Head(a) * k + carry
         IN  <<p % LimbBase>> \o BigMulSmall(Tail(a), k, p \div LimbBase)

\* The long division of a by k <= LimbBase from the top limb down.
RECURSIVE BigDivLoop(_, _, _)
BigDivLoop(a, k, rem) ==
    IF a = <<>> THEN [q |-> <<>>, r |-> rem]
    ELSE LET cur == rem * LimbBase + a[Len(a)]
             rest == BigDivLoop(SubSeq(a, 1, Len(a) - 1), k, cur % k)
         IN  [q |-> Append(rest.q, cur \div k), r |-> rest.r]

\* [q, r]: the quotient and the remainder of a by k
BigDivSmall(a, k) ==
    LET x == BigDivLoop(a, k, 0)
    IN  [q |-> BigTrim(x.q), r |-> x.r]

\* a * 2^k
BigShl(a, k) ==
    IF a = <<>> THEN <<>>
    ELSE [i \in 1..(k \div LimbBits) |-> 0] \o BigMulSmall(a, 2^(k % LimbBits), 0)

\* a \div 2^k
BigShr(a, k) ==
    IF k \div LimbBits >= Len(a) THEN <<>>
    ELSE BigDivSmall(SubSeq(a, (k \div LimbBits) + 1, Len(a)), 2^(k % LimbBits)).q

RECURSIVE IntBitLen(_)
IntBitLen(k) == IF k = 0 THEN 0 ELSE 1 + IntBitLen(k \div 2)

BigBitLen(a) ==
    IF a = <<>> THEN 0 ELSE LimbBits * (Len(a) - 1) + IntBitLen(a[Len(a)])

RECURSIVE IntTrailingZeros(_)
IntTrailingZeros(k) == IF k % 2 = 1 THEN 0 ELSE 1 + IntTrailingZeros(k \div 2)

\* The number of zero bits at the low end of a # 0
RECURSIVE BigTrailingZeros(_)
BigTrailingZeros(a) ==
    IF Head(a) # 0 THEN IntTrailingZeros(Head(a))
    ELSE LimbBits + BigTrailingZeros(Tail(a))

----------------------------------------------------------------------------
(* Python floats: IEEE-754 doubles, rounded to nearest, ties to even.  The *)
(* numbers of the model stay far from the ends of the exponent range, so   *)
(* neither infinities nor subnormals are modelled.                         *)

\* The bits of the significand of a double.
MantissaBits == 53

FloatZero == Float(0, <<>>, 0)

\* The float v with an odd significand, so that equal floats are equal records
Normalize(v) == Float(v.n, BigShr(v.m, BigTrailingZeros(v.m)), v.e + BigTrailingZeros(v.m))

\* The double nearest to sign * (m + rest) * 2^e, where 0 < rest < 1 if
\* sticky and rest = 0 otherwise.
\* Whether q = m \div 2^k is rounded up: c compares the k bits dropped from m
\* with one half; a tie goes to the even neighbour.
RoundsUp(q, c, sticky) == c > 0 \/ (c = 0 /\ (sticky \/ Head(q) % 2 = 1))

\* m without its k lowest bits, rounded
RoundBits(m, q, k, sticky) ==
    IF RoundsUp(q, BigCmp(BigSub(m, BigShl(q, k)), BigShl(<<1>>, k - 1)), sticky)
    THEN BigAdd(q, <<1>>, 0)
    ELSE q

\* The double nearest to sign * (m + rest) * 2^e, where 0 < rest < 1 if
\* sticky and rest = 0 otherwise; k is the number of bits m has too many.
RoundExcess(sign, m, sticky, e, k) ==
    IF k <= 0 THEN Float(sign, m, e)
    ELSE Float(sign, RoundBits(m, BigShr(m, k), k, sticky), e + k)

RoundToFloat(sign, m, sticky, e) ==
    IF m = <<>> THEN FloatZero
    ELSE Normalize(RoundExcess(sign, m, sticky, e, BigBitLen(m) - MantissaBits))

\* float(v) of an int, a bool or a float
ToFloat(v) ==
    IF v.t = "float" THEN v
    ELSE IF v.n = 0 THEN FloatZero
    ELSE Normalize(Float(IF v.n < 0 THEN -1 ELSE 1, BigOfInt(Abs(v.n)), 0))

\* a + b of two floats
MinInt(i, j) == IF i < j THEN i ELSE j

\* [n, m]: the sign and the size of sa * x + sb * y
SignedSum(sa, x, sb, y) ==
    IF sa = sb THEN [n |-> sa, m |-> BigAdd(x, y, 0)]
    ELSE IF BigCmp(x, y) >= 0 THEN [n |-> sa, m |-> BigSub(x, y)]
    ELSE [n |-> sb, m |-> BigSub(y, x)]

RoundSum(sum, e) == RoundToFloat(sum.n, sum.m, FALSE, e)

\* a + b of two floats other than 0.0, e being the lesser of their exponents
AddAligned(a, b, e) ==
    RoundSum(SignedSum(a.n, BigShl(a.m, a.e - e), b.n, BigShl(b.m, b.e - e)), e)

\* a + b of two floats
FloatAdd(a, b) ==
    IF a.n = 0 THEN b
    ELSE IF b.n = 0 THEN a
    ELSE AddAligned(a, b, MinInt(a.e, b.e))

\* a / k of a float and an int 0 < k < LimbBase: the quotient is computed to
\* more bits than a double holds, and the remainder decides the rounding.
RoundQuotient(sign, x, e) == RoundToFloat(sign, x.q, x.r # 0, e)

FloatDiv(a, k) ==
    IF a.n = 0 THEN FloatZero
    ELSE RoundQuotient(a.n, BigDivSmall(BigShl(a.m, 5 * LimbBits), k), a.e - 5 * LimbBits)

\* -1, 0 or 1 as a < b, a == b or a > b, for two floats
CmpAligned(a, b, e) == a.n * BigCmp(BigShl(a.m, a.e - e), BigShl(b.m, b.e - e))

FloatCmp(a, b) ==
    IF a.n # b.n THEN (IF a.n < b.n THEN -1 ELSE 1)
    ELSE IF a.n = 0 THEN 0
    ELSE CmpAligned(a, b, MinInt(a.e, b.e))

\* isinstance(v, (float, int)); bool is a subclass of int.
IsNumeric(v) == v.t \in {"num", "bool", "float"}

\* bool(v)
Truthy(v) ==
    CASE v.t = "none" -> FALSE
      [] v.t \in {"num", "bool", "float"} -> v.n # 0
      [] v.t = "str" -> v.s # ""
      [] OTHER -> TRUE

\* a == b of Python; an int and a float are compared by their exact values
PyEq(a, b) ==
    IF IsNumeric(a) /\ IsNumeric(b) THEN FloatCmp(ToFloat(a), ToFloat(b)) = 0
    ELSE a = b

\* The strings of the model in lexicographic order.
StrOrder ==
    <<"", "1", "1970-01-01T00:00:00+00:00", "1970-01-01T00:00:01+00:00",
      "1970-01-01T00:00:02+00:00", "[]", "a", "b", "s", "{}">>
StrRank(x) == CHOOSE i \in 1..Len(StrOrder) : StrOrder[i] = x

\* a < b is defined (it raises TypeError otherwise)
Comparable(a, b) ==
    \/ IsNumeric(a) /\ IsNumeric(b)
    \/ a.t = "str" /\ b.t = "str"

\* a < b of Python, where Comparable(a, b)
PyLess(a, b) ==
    IF a.t = "str" THEN StrRank(a.s) < StrRank(b.s)
    ELSE FloatCmp(ToFloat(a), ToFloat(b)) < 0

PyMin(a, b) == IF PyLess(b, a) THEN b ELSE a
PyMax(a, b) == IF PyLess(a, b) THEN b ELSE a

\* str(v)
PyStr(v) ==
    CASE v.t = "none" -> "None"
      [] v.t = "bool" -> IF v.n = 1 THEN "True" ELSE "False"
      [] v.t = "num" -> ToString(v.n)
      [] v.t = "str" -> v.s
      [] v.t = "entry" -> "<entry>"

\* repr(v)
PyRepr(v) == IF v.t = "str" THEN "'" \o v.s \o "'" ELSE PyStr(v)

----------------------------------------------------------------------------
(* The record model.  A field name is the sequence of its "/"-separated    *)
(* parts.  A field's data is a bare value or a dict of sub-fields.         *)

IsDict(x) == "t" \notin DOMAIN x

\* d.get(k), None when the key is missing
Get(d, k) == IF k \in DOMAIN d THEN d[k] ELSE None

\* bool(x) of a value or a dict
TruthyData(x) == IF IsDict(x) THEN DOMAIN x # {} ELSE Truthy(x)

Front(sq) == SubSeq(sq, 1, Len(sq) - 1)
Last(sq) == sq[Len(sq)]

fetch_value(d, field_name) ==
    LET v == Get(d, field_name)
    IN  IF ~TruthyData(v)
        THEN IF Len(field_name) > 1
             THEN LET parent_data == Get(d, Front(field_name))
                  IN  IF IsDict(parent_data)
                      THEN Get(parent_data, Last(field_name))
                      ELSE None
             ELSE None
        ELSE IF IsDict(v) THEN Get(v, "value") ELSE v

\* CanonicalMetricsEntry.fetch_value
entry_fetch_value(entry, field_name) ==
    LET v == fetch_value(entry.metadata, field_name)
    IN  IF ~TruthyData(v) THEN fetch_value(entry.metrics, field_name) ELSE v

----------------------------------------------------------------------------
(* Conditions of metrics_cli.models.condition, the ones AggregateConversion *)
(* works with.  values_none tells values = None from an empty list.         *)

Cond(f, o, vn, vs) == [field_name |-> f, operator |-> o, values_none |-> vn, values |-> vs]
cli_slice_condition(f) == Cond(f, "slice", TRUE, <<>>)
cli_in_condition(f, vs) == Cond(f, "in", FALSE, vs)
cli_not_in_condition(f, vs) == Cond(f, "not_in", FALSE, vs)
cli_range_condition(f, lo, hi) == Cond(f, "range", FALSE, <<lo, hi>>)

\* field_value in self.values
PyIn(v, vs) == \E i \in DOMAIN vs : PyEq(v, vs[i])

cli_check_range(c, field_value) ==
    IF c.values_none THEN TRUE
    ELSE LET min_val == c.values[1]
             max_val == c.values[2]
         IN  IF min_val # None /\ ~Comparable(field_value, min_val) THEN FALSE  \* TypeError
             ELSE IF min_val # None /\ PyLess(field_value, min_val) THEN FALSE
             ELSE IF max_val # None /\ ~Comparable(field_value, max_val) THEN FALSE  \* TypeError
             ELSE IF max_val # None /\ PyLess(max_val, field_value) THEN FALSE
             ELSE TRUE

\* Condition.check; a "slice" condition exits the process instead, which no
\* caller modelled here reaches.
cli_check(c, field_value) ==
    CASE c.operator = "in" /\ c.values # <<>> -> PyIn(field_value, c.values)
      [] c.operator = "not_in" /\ c.values # <<>> -> ~PyIn(field_value, c.values)
      [] c.operator = "range" -> cli_check_range(c, field_value)
      [] OTHER -> FALSE

RECURSIVE JoinStr(_, _)
JoinStr(parts, sep) ==
    IF parts = <<>> THEN ""
    ELSE IF Len(parts) = 1 THEN parts[1]
    ELSE parts[1] \o sep \o JoinStr(Tail(parts), sep)

\* the text of a field name
FieldStr(f) == JoinStr(f, "/")

\* str(values): None, a list, or the tuple range_condition builds
ValuesStr(c) ==
    IF c.values_none THEN "None"
    ELSE LET items == JoinStr([i \in DOMAIN c.values |-> PyRepr(c.values[i])], ", ")
         IN  IF c.operator = "range" THEN "(" \o items \o ")" ELSE "[" \o items \o "]"

\* Condition.__str__ of metrics_cli
cli_condition_str(c) ==
    "Condition(" \o FieldStr(c.field_name) \o " " \o c.operator \o " " \o ValuesStr(c) \o ")"

----------------------------------------------------------------------------
(* AggregateConversion *)

NULLIFY == "nullify"
ACCEPT_SUBSET == "accept_subset"
ALL_OR_NOTHING == "all_or_nothing"
Strategies == {NULLIFY, ACCEPT_SUBSET, ALL_OR_NOTHING}

\* The entry object itself, where the code hands it on as a value: it has no
\* __eq__ and no ordering, and is truthy.
EntryAsValue(entry) == [t |-> "entry", n |-> 0, m |-> <<>>, e |-> 0, s |-> entry.name]

get_slice_values(entry, sl) ==
    [i \in DOMAIN sl |->
        LET v == entry_fetch_value(entry, sl[i].field_name)
        IN  IF sl[i].operator # "slice"
            THEN Bool(cli_check(sl[i], EntryAsValue(entry)))
            ELSE v]

\* key1 == key2 of two tuples
KeyEq(k1, k2) ==
    /\ Len(k1) = Len(k2)
    /\ \A i \in DOMAIN k1 : PyEq(k1[i], k2[i])

\* The loop of _create_new_entry_name from condition i on.  bound tells
\* whether the locals field_name and value_str have been assigned yet; the
\* part appended is built from these two locals, whatever name_part holds.
RECURSIVE NameLoop(_, _, _, _, _, _, _)
NameLoop(sl, key, i, bound, field_name, value_str, name_parts) ==
    IF i > Len(sl) THEN [raised |-> FALSE, parts |-> name_parts]
    ELSE IF sl[i].operator = "slice"
    THEN LET fn == FieldStr(sl[i].field_name)
             vs == IF key[i] = None THEN "none" ELSE PyStr(key[i])
         IN  NameLoop(sl, key, i + 1, TRUE, fn, vs,
                      Append(name_parts, fn \o "_" \o vs))
    ELSE IF ~bound THEN [raised |-> TRUE, parts |-> name_parts]  \* UnboundLocalError
    ELSE NameLoop(sl, key, i + 1, bound, field_name, value_str,
                  Append(name_parts, field_name \o "_" \o value_str))

\* [raised, name]
\* The name returned after the loop, unless the loop raised
NameOf(r) ==
    [raised |-> r.raised,
     name |-> IF r.raised THEN ""
              ELSE IF r.parts # <<>> THEN JoinStr(r.parts, "_") ELSE "aggregated"]

\* [raised, name]
create_new_entry_name(sl, key) == NameOf(NameLoop(sl, key, 1, FALSE, "", "", <<>>))

\* The scan of one metric over the members of a group (the inner loop of
\* _aggregate_metrics), from member j on.  st holds the loop's locals.
RECURSIVE MetricScan(_, _, _, _, _)
MetricScan(data_list, key, strategy, j, st) ==
    IF j > Len(data_list) THEN st
    ELSE
    LET metric == IF key \in DOMAIN data_list[j] THEN data_list[j][key] ELSE <<>>
        v0 == Get(metric, "value")
        absent == ~Truthy(v0)
        v == IF absent THEN Num(0) ELSE v0
    IN  IF absent /\ strategy = ALL_OR_NOTHING
        THEN [st EXCEPT !.skip = TRUE]                               \* break
        ELSE IF absent /\ strategy = ACCEPT_SUBSET
        THEN MetricScan(data_list, key, strategy, j + 1, st)           \* continue
        ELSE IF ~IsNumeric(v)
        THEN IF strategy = ACCEPT_SUBSET
             THEN MetricScan(data_list, key, strategy, j + 1, st)      \* continue
             ELSE st                                                   \* break
        ELSE MetricScan(data_list, key, strategy, j + 1,
                 [total |-> FloatAdd(st.total, ToFloat(v)),
                  n |-> st.n + 1,
                  min_value |-> PyMin(st.min_value, v),
                  max_value |-> PyMax(st.max_value, v),
                  prune_in_all |-> st.prune_in_all /\ Truthy(Get(metric, "prune")),
                  skip |-> st.skip])

\* The locals of the scan of metric key after its loop.
ScanOf(data_list, key, strategy) ==
    LET v == Get(data_list[1][key], "value")
    IN  MetricScan(data_list, key, strategy, 1,
            [total |-> FloatZero, n |-> 0, min_value |-> v, max_value |-> v,
             prune_in_all |-> TRUE, skip |-> FALSE])

\* The metrics that get an aggregated value: numeric in the first member,
\* neither skipped nor without samples.
AggregatedKeys(data_list, strategy) ==
    {key \in DOMAIN data_list[1] :
        /\ IsNumeric(Get(data_list[1][key], "value"))
        /\ LET st == ScanOf(data_list, key, strategy)
           IN  ~st.skip /\ st.n # 0}

\* d with key k set to v (d[k] = v of Python)
DictSet(d, k, v) == [x \in DOMAIN d \cup {k} |-> IF x = k THEN v ELSE d[x]]
\* d without key k (d.pop(k, None))
DictPop(d, k) == [x \in DOMAIN d \ {k} |-> d[x]]

\* The aggregated metric built from a copy of the first member's metric and
\* the locals st of the scan.
AggregatedMetric(first, st) ==
    [k \in (DOMAIN first \cup {"value", "min_value", "max_value", "n_samples"}) \
            (IF st.prune_in_all THEN {} ELSE {"prune"}) |->
        CASE k = "value" -> FloatDiv(st.total, st.n)
          [] k = "min_value" -> st.min_value
          [] k = "max_value" -> st.max_value
          [] k = "n_samples" -> Num(st.n)
          [] OTHER -> first[k]]

aggregate_metrics(data_list, strategy) ==
    [key \in AggregatedKeys(data_list, strategy) |->
        AggregatedMetric(data_list[1][key], ScanOf(data_list, key, strategy))]

\* Whether the scan of metric key from member j on reads a metric that is
\* no dict: metric.get("value") then raises AttributeError.
RECURSIVE ScanRaises(_, _, _, _)
ScanRaises(data_list, key, strategy, j) ==
    IF j > Len(data_list) THEN FALSE
    ELSE IF key \in DOMAIN data_list[j] /\ ~IsDict(data_list[j][key]) THEN TRUE
    ELSE IF ~Truthy(Get(Get(data_list[j], key), "value"))
    THEN strategy # ALL_OR_NOTHING /\ ScanRaises(data_list, key, strategy, j + 1)
    ELSE IF ~IsNumeric(Get(data_list[j][key], "value"))
    THEN strategy = ACCEPT_SUBSET /\ ScanRaises(data_list, key, strategy, j + 1)
    ELSE ScanRaises(data_list, key, strategy, j + 1)

\* _aggregate_metrics raises: aggr_metric.get("value") on a metric of the
\* first member that is no dict, or the scan of a metric does.
aggregate_metrics_raises(data_list, strategy) ==
    \E key \in DOMAIN data_list[1] :
        \/ ~IsDict(data_list[1][key])
        \/ /\ IsNumeric(Get(data_list[1][key], "value"))
           /\ ScanRaises(data_list, key, strategy, 1)

\* a != b of two field data (bare values or dicts)
DataEq(a, b) == IF IsDict(a) \/ IsDict(b) THEN a = b ELSE PyEq(a, b)

\* The loop of _aggregate_metadata_field from member j on; it raises
\* TypeError when min() or max() meets two values that cannot be compared.
RECURSIVE MetadataFieldScan(_, _, _, _)
MetadataFieldScan(data_list, field_name, j, st) ==
    IF j > Len(data_list) THEN st
    ELSE LET v == fetch_value(data_list[j], field_name)
         IN  IF ~TruthyData(v)
             THEN MetadataFieldScan(data_list, field_name, j + 1, st)
             ELSE IF IsDict(v) \/ ~Comparable(st.min_value, v)
             THEN [st EXCEPT !.raised = TRUE]
             ELSE MetadataFieldScan(data_list, field_name, j + 1,
                      [raised |-> FALSE,
                       n_samples |-> st.n_samples + 1,
                       min_value |-> PyMin(st.min_value, v),
                       max_value |-> PyMax(st.max_value, v)])

\* [raised, field_info]
aggregate_metadata_field(field_name, data_list) ==
    LET first == data_list[1][field_name]
    IN  IF "value" \notin DOMAIN first
        THEN [raised |-> TRUE, field_info |-> first]                  \* KeyError
        ELSE LET v == first["value"]
                 st == MetadataFieldScan(data_list, field_name, 1,
                           [raised |-> FALSE, n_samples |-> 0,
                            min_value |-> v, max_value |-> v])
                 f1 == DictSet(DictPop(first, "value"), "min_value", st.min_value)
                 f2 == DictSet(f1, "max_value", st.max_value)
             IN  [raised |-> st.raised,
                  field_info |-> DictSet(f2, "n_samples", Num(st.n_samples))]

\* d.update(e) of two dicts
DictUpdate(d, e) == [x \in DOMAIN d \cup DOMAIN e |-> IF x \in DOMAIN e THEN e[x] ELSE d[x]]

AllFields(data_list) == UNION {DOMAIN data_list[j] : j \in DOMAIN data_list} \ {<<"files">>}

SameInAll(data_list, field_name) ==
    \A j \in DOMAIN data_list :
        DataEq(Get(data_list[j], field_name), Get(data_list[1], field_name))

\* The fields of a group that are summarised as min / max / n_samples.
Summarised(data_list, field_name) ==
    LET field_data == Get(data_list[1], field_name)
    IN  /\ IsDict(field_data)
        /\ \/ Get(field_data, "category") = Str("timestamp")
           \/ /\ Get(field_data, "category") = Str("unique")
              /\ IsNumeric(Get(field_data, "value"))

\* [raised, metadata]
aggregate_metadata(data_list) ==
    LET kept == {f \in AllFields(data_list) :
                    SameInAll(data_list, f) \/ Summarised(data_list, f)}
    IN  [raised |-> \E f \in AllFields(data_list) :
                        /\ Summarised(data_list, f)
                        /\ aggregate_metadata_field(f, data_list).raised,
         metadata |->
            [f \in kept |->
                LET first_value == Get(data_list[1], f)
                IN  IF Summarised(data_list, f)
                    THEN DictUpdate(IF SameInAll(data_list, f) THEN first_value ELSE <<>>,
                                    aggregate_metadata_field(f, data_list).field_info)
                    ELSE first_value]]

\* The grouping loop of convert from entry i on: groups is the dict, as the
\* sequence of its [key, entries] items in insertion order; entries holds the
\* positions in data of the group's members.
RECURSIVE GroupLoop(_, _, _, _)
GroupLoop(d, sl, i, groups) ==
    IF i > Len(d) THEN groups
    ELSE LET key == get_slice_values(d[i], sl)
             hit == {g \in DOMAIN groups : KeyEq(groups[g].key, key)}
         IN  IF hit = {}
             THEN GroupLoop(d, sl, i + 1, Append(groups, [key |-> key, entries |-> <<i>>]))
             ELSE LET g == CHOOSE g \in hit : TRUE
                  IN  GroupLoop(d, sl, i + 1,
                          [groups EXCEPT ![g].entries = Append(@, i)])

Groups(d, sl) == GroupLoop(d, sl, 1, <<>>)

\* [raised, entry] for one group
\* CanonicalMetricsEntry(name, metadata, metrics), unless computing the name
\* or the metadata raised
NewEntry(name, metadata, metrics) ==
    [raised |-> name.raised \/ metadata.raised,
     entry |-> [name |-> name.name, metadata |-> metadata.metadata, metrics |-> metrics]]

\* r, or raised when _aggregate_metrics raised
UnlessMetricsRaise(metrics_raise, r) == [r EXCEPT !.raised = @ \/ metrics_raise]

aggregate(d, sl, strategy, group) ==
    UnlessMetricsRaise(
        aggregate_metrics_raises([j \in DOMAIN group.entries |-> d[group.entries[j]].metrics],
                                 strategy),
        NewEntry(create_new_entry_name(sl, group.key),
                 aggregate_metadata([j \in DOMAIN group.entries |-> d[group.entries[j]].metadata]),
                 aggregate_metrics([j \in DOMAIN group.entries |-> d[group.entries[j]].metrics],
                                   strategy)))

\* AggregateConversion.convert: [raised, entries]; entries is empty when it raised.
\* The loop of convert over the groups
AggregateGroups(d, sl, strategy, groups) ==
    [g \in DOMAIN groups |-> aggregate(d, sl, strategy, groups[g])]

\* What convert returns, from the [raised, entry] of its groups
AggregatedEntries(res) ==
    IF \E g \in DOMAIN res : res[g].raised
    THEN [raised |-> TRUE, entries |-> <<>>]
    ELSE [raised |-> FALSE, entries |-> [g \in DOMAIN res |-> res[g].entry]]

convert(d, sl, strategy) == AggregatedEntries(AggregateGroups(d, sl, strategy, Groups(d, sl)))

----------------------------------------------------------------------------
(* The inputs of the aggregation model. *)

\* All sequences over S of length 0..n
BoundedSeq(S, n) == UNION {[1..k -> S] : k \in 0..n}

agent == <<"agent">>
MetricX == <<"x">>

\* The float 0.1: the double nearest to 1 / 10
OneTenth == FloatDiv(ToFloat(Num(1)), 10)

\* One metric x: missing, zero, negative, positive, a fraction, flagged
\* prune, or text.
MetricsChoices ==
    {<<>>} \cup
    {(MetricX :> ("value" :> v)) :
        v \in {Num(0), Num(-2), Num(1), Num(3), OneTenth, Str("s")}} \cup
    {(MetricX :> [value |-> Num(1), prune |-> Bool(TRUE)])}

MetadataChoices == {<<>>, (agent :> Str("a")), (agent :> Str("b"))}

Entry(md, ms) == [name |-> "e", metadata |-> md, metrics |-> ms]

\* Entries that differ in their metrics, for the claims on aggregated metrics.
MetricEntries == {Entry(md, ms) : md \in MetadataChoices \ {<<>>}, ms \in MetricsChoices}

\* Entries that differ in the sliced field, for the claims on grouping.
SliceEntries ==
    {Entry(md, ms) : md \in MetadataChoices, ms \in {<<>>, (MetricX :> ("value" :> Num(1)))}}

SliceConditions ==
    {cli_slice_condition(agent),
     cli_in_condition(agent, <<Str("a")>>),
     cli_not_in_condition(agent, <<Str("a")>>),
     cli_range_condition(agent, Str("b"), None)}

\* The keys a list of slice conditions can meet: a fetched value for a
\* "slice" condition, a bool for any other.
KeysFor(sl) ==
    {key \in [DOMAIN sl -> {None, Str("a"), Str("b"), Bool(TRUE), Bool(FALSE)}] :
        \A i \in DOMAIN sl : (sl[i].operator = "slice") = (key[i].t # "bool")}

Idle ==
    /\ op = "init"
    /\ arg = <<>>
    /\ out = <<>>

InitMetrics ==
    /\ data \in BoundedSeq(MetricEntries, MaxEntries)
    /\ slices \in {<<>>, <<cli_slice_condition(agent)>>}
    /\ absent_metrics_strategy \in Strategies
    /\ conditions_str = <<>>
    /\ Idle
    /\ callers = <<>>
    /\ cache = <<>>
    /\ heap = <<>>
    /\ table = <<>>
    /\ params = <<>>
    /\ column_tree = <<>>
    /\ prune_all_entries = TRUE

InitSlices ==
    /\ data \in BoundedSeq(SliceEntries, MaxEntries)
    /\ slices \in BoundedSeq(SliceConditions, MaxSlices)
    /\ absent_metrics_strategy = ALL_OR_NOTHING
    /\ conditions_str = <<>>
    /\ Idle
    /\ callers = <<>>
    /\ cache = <<>>
    /\ heap = <<>>
    /\ table = <<>>
    /\ params = <<>>
    /\ column_tree = <<>>
    /\ prune_all_entries = TRUE

\* AggregateConversion(slices, absent_metrics_strategy).convert(data)
Convert ==
    /\ op' = "convert"
    /\ arg' = <<>>
    /\ out' = convert(data, slices, absent_metrics_strategy)
    /\ UNCHANGED <<data, slices, absent_metrics_strategy, conditions_str, prune_all_entries, column_tree, params, table, heap, cache, callers>>

\* get_slice_values(data[i], slices)
GetSliceValues ==
    \E i \in DOMAIN data :
        /\ op' = "get_slice_values"
        /\ arg' = <<i>>
        /\ out' = get_slice_values(data[i], slices)
        /\ UNCHANGED <<data, slices, absent_metrics_strategy, conditions_str, prune_all_entries, column_tree, params, table, heap, cache, callers>>

\* AggregateConversion(slices)._create_new_entry_name(key)
CreateNewEntryName ==
    \E key \in KeysFor(slices) :
        /\ op' = "create_new_entry_name"
        /\ arg' = key
        /\ out' = create_new_entry_name(slices, key)
        /\ UNCHANGED <<data, slices, absent_metrics_strategy, conditions_str, prune_all_entries, column_tree, params, table, heap, cache, callers>>

NextMetrics == Convert

SpecMetrics == InitMetrics /\ [][NextMetrics]_vars

NextSlices == Convert \/ GetSliceValues \/ CreateNewEntryName

SpecSlices == InitSlices /\ [][NextSlices]_vars

----------------------------------------------------------------------------
(* Claims on AggregateConversion. *)

\* The members (positions in data) of the group behind out.entries[g].
MembersOf(g) == Groups(data, slices)[g].entries

Converted == op = "convert" /\ ~out.raised

\* C1: convert partitions its input: every entry is in exactly one group,
\* two entries share a group iff their slice keys are equal, and the output
\* holds exactly one aggregated entry per distinct key.
C1_ConvertPartitions ==
    op = "convert" =>
        LET groups == Groups(data, slices)
            keyOf(i) == get_slice_values(data[i], slices)
            groupsOf(i) == {g \in DOMAIN groups :
                               \E j \in DOMAIN groups[g].entries : groups[g].entries[j] = i}
        IN  /\ ~out.raised
            /\ \A i \in DOMAIN data : Cardinality(groupsOf(i)) = 1
            /\ \A i, j \in DOMAIN data :
                   (groupsOf(i) = groupsOf(j)) <=> KeyEq(keyOf(i), keyOf(j))
            /\ Len(out.entries) = Cardinality({keyOf(i) : i \in DOMAIN data})

\* C2: under AllOrNothing every metric of an aggregated entry has n_samples
\* equal to the size of its group.
C2_AllOrNothingCountsAll ==
    (Converted /\ absent_metrics_strategy = ALL_OR_NOTHING) =>
        \A g \in DOMAIN out.entries : \A key \in DOMAIN out.entries[g].metrics :
            out.entries[g].metrics[key]["n_samples"] = Num(Len(MembersOf(g)))

\* C3: under Nullify every metric of an aggregated entry has n_samples equal
\* to the size of its group: absent and non-numeric values count as 0.
C3_NullifyCountsAll ==
    (Converted /\ absent_metrics_strategy = NULLIFY) =>
        \A g \in DOMAIN out.entries : \A key \in DOMAIN out.entries[g].metrics :
            out.entries[g].metrics[key]["n_samples"] = Num(Len(MembersOf(g)))

\* C4: under AllOrNothing a metric that is numeric in the first member of a
\* group is in the aggregated entry iff every member holds it with a numeric
\* value, zero included.
C4_AllOrNothingKeepsIffAllNumeric ==
    (Converted /\ absent_metrics_strategy = ALL_OR_NOTHING) =>
        \A g \in DOMAIN out.entries :
            LET members == MembersOf(g)
                first == data[members[1]].metrics
            IN  \A key \in DOMAIN first :
                    IsNumeric(Get(first[key], "value")) =>
                        ((key \in DOMAIN out.entries[g].metrics) <=>
                         \A j \in DOMAIN members :
                            /\ key \in DOMAIN data[members[j]].metrics
                            /\ IsNumeric(Get(data[members[j]].metrics[key], "value")))

\* a <= b of two numbers
PyLeq(a, b) == ~PyLess(b, a)

\* C5: every aggregated metric has min_value <= value <= max_value, under
\* every policy.
C5_ValueWithinExtrema ==
    Converted =>
        \A g \in DOMAIN out.entries : \A key \in DOMAIN out.entries[g].metrics :
            LET m == out.entries[g].metrics[key]
            IN  PyLeq(m["min_value"], m["value"]) /\ PyLeq(m["value"], m["max_value"])

\* The key the claim describes: the fetched value for a "slice" condition,
\* the check of the fetched value for any other.
ExpectedKey(entry, sl) ==
    [i \in DOMAIN sl |->
        LET v == entry_fetch_value(entry, sl[i].field_name)
        IN  IF sl[i].operator = "slice" THEN v ELSE Bool(cli_check(sl[i], v))]

\* C6: component i of the grouping key is the fetched value of the field for
\* a Slice condition and the check of that fetched value for any other.
C6_KeyIsFetchedValueOrCheck ==
    op = "get_slice_values" => out = ExpectedKey(data[arg[1]], slices)

\* The name the claim describes.
ExpectedName(sl, key) ==
    IF sl = <<>> THEN "aggregated"
    ELSE JoinStr([i \in DOMAIN sl |->
                    IF sl[i].operator = "slice"
                    THEN FieldStr(sl[i].field_name) \o "_" \o
                         (IF key[i] = None THEN "none" ELSE PyStr(key[i]))
                    ELSE (IF Truthy(key[i]) THEN "" ELSE "not_") \o cli_condition_str(sl[i])],
                 "_")

\* C7: the name of an aggregated entry joins one part per slice condition
\* with "_", whatever the positions of Slice and other conditions.
C7_NameJoinsOnePartPerCondition ==
    op = "create_new_entry_name" =>
        /\ ~out.raised
        /\ out.name = ExpectedName(slices, arg)

\* The orderings of a list of n members
Orderings(n) == {f \in [1..n -> 1..n] : \A i, j \in 1..n : f[i] = f[j] => i = j}

Reordered(d, f) == [i \in DOMAIN d |-> d[f[i]]]

\* value, min_value, max_value and n_samples of every metric of an entry
StatisticsOf(metrics) ==
    [key \in DOMAIN metrics |->
        [k \in DOMAIN metrics[key] \cap {"value", "min_value", "max_value", "n_samples"} |->
            metrics[key][k]]]

\* The statistics of the aggregated entries res of the list d, by group key
OutcomeOf(d, res) ==
    {<<Groups(d, slices)[g].key, StatisticsOf(res.entries[g].metrics)>> : g \in DOMAIN res.entries}

\* C28: for every group and every policy the metrics of the aggregated
\* entry and their value, min_value, max_value and n_samples are the same
\* for every ordering of the members.
C28_OutcomeIndependentOfOrder ==
    Converted =>
        \A f \in Orderings(Len(data)) :
            \A r \in {convert(Reordered(data, f), slices, absent_metrics_strategy)} :
                /\ ~r.raised
                /\ OutcomeOf(Reordered(data, f), r) = OutcomeOf(data, out)

\* Entries whose sliced field is missing, the number 1, the text "1" or the
\* text "a".
NamedEntries ==
    {Entry(md, (MetricX :> ("value" :> Num(1)))) :
        md \in {<<>>, (agent :> Num(1)), (agent :> Str("1")), (agent :> Str("a"))}}

InitNames ==
    /\ data \in BoundedSeq(NamedEntries, MaxEntries)
    /\ slices \in {<<>>, <<cli_slice_condition(agent)>>,
                   <<cli_slice_condition(agent), cli_not_in_condition(agent, <<Str("a")>>)>>}
    /\ absent_metrics_strategy = ALL_OR_NOTHING
    /\ conditions_str = <<>>
    /\ Idle
    /\ callers = <<>>
    /\ cache = <<>>
    /\ heap = <<>>
    /\ table = <<>>
    /\ params = <<>>
    /\ column_tree = <<>>
    /\ prune_all_entries = TRUE

NextNames == Convert

SpecNames == InitNames /\ [][NextNames]_vars

\* C27: within one call of convert the aggregated entries of groups with
\* different keys have different names, so that saving the entries under
\* their names keeps every group.
C27_GroupsHaveDifferentNames ==
    Converted =>
        \A g, h \in DOMAIN out.entries :
            ~KeyEq(Groups(data, slices)[g].key, Groups(data, slices)[h].key)
                => out.entries[g].name # out.entries[h].name

\* The value a member holds for a metric, None when the metric is missing
MemberValue(metrics, key) ==
    IF key \in DOMAIN metrics THEN Get(metrics[key], "value") ELSE None

\* The members of data_list, from member j on, that the scan of metric key
\* counts in n_samples
RECURSIVE CountedFrom(_, _, _, _)
CountedFrom(data_list, key, strategy, j) ==
    IF j > Len(data_list) THEN {}
    ELSE IF ~Truthy(MemberValue(data_list[j], key))
    THEN CASE strategy = ALL_OR_NOTHING -> {}
           [] strategy = ACCEPT_SUBSET -> CountedFrom(data_list, key, strategy, j + 1)
           [] strategy = NULLIFY -> {j} \cup CountedFrom(data_list, key, strategy, j + 1)
    ELSE IF ~IsNumeric(MemberValue(data_list[j], key))
    THEN IF strategy = ACCEPT_SUBSET
         THEN CountedFrom(data_list, key, strategy, j + 1)
         ELSE {}
    ELSE {j} \cup CountedFrom(data_list, key, strategy, j + 1)

\* The value a counted member contributes: 0 for an absent one
CountedValue(metrics, key) ==
    IF Truthy(MemberValue(metrics, key)) THEN MemberValue(metrics, key) ELSE Num(0)

\* The sum of the integers k[j] over the members j of S
RECURSIVE IntSum(_, _)
IntSum(k, S) ==
    IF S = {} THEN 0
    ELSE LET j == CHOOSE x \in S : TRUE IN k[j] + IntSum(k, S \ {j})

\* The aggregated metric m describes the values vals of the counted members
\* S: as many samples, their minimum, their maximum and, where all of them
\* are integers, their mean.
DescribesCounted(m, vals, S) ==
    /\ m["n_samples"] = Num(Cardinality(S))
    /\ \E j \in S : PyEq(m["min_value"], vals[j]) /\ \A i \in S : PyLeq(vals[j], vals[i])
    /\ \E j \in S : PyEq(m["max_value"], vals[j]) /\ \A i \in S : PyLeq(vals[i], vals[j])
    /\ (\A j \in S : vals[j].t = "num") =>
           m["value"] = FloatDiv(ToFloat(Num(IntSum([j \in S |-> vals[j].n], S))), Cardinality(S))

\* The metrics of the members of group g, in their order
MetricsOfMembers(g) == [j \in DOMAIN MembersOf(g) |-> data[MembersOf(g)[j]].metrics]

\* C22: for every aggregated metric, under every policy, value is the mean,
\* min_value the minimum and max_value the maximum of the values of exactly
\* the group members counted in n_samples; a member that is not counted
\* has no influence on them.
C22_StatisticsOfCountedMembers ==
    Converted =>
        \A g \in DOMAIN out.entries : \A key \in DOMAIN out.entries[g].metrics :
            DescribesCounted(out.entries[g].metrics[key],
                [j \in DOMAIN MembersOf(g) |-> CountedValue(MetricsOfMembers(g)[j], key)],
                CountedFrom(MetricsOfMembers(g), key, absent_metrics_strategy, 1))

----------------------------------------------------------------------------
(* Conditions of metrics_core.models.condition, with their formatter and   *)
(* parser.  A text is the sequence of its characters.  The values of a     *)
(* condition are [kind, items]: kind is the Python type of values ("none"  *)
(* for None), items its elements.                                          *)

TNone == [t |-> "none", n |-> 0, d |-> 1, s |-> <<>>]
TStr(chars) == [t |-> "str", n |-> 0, d |-> 1, s |-> chars]
\* the float n / d, d a power of ten
TFloat(n, d) == [t |-> "num", n |-> n, d |-> d, s |-> <<>>]

NoValues == [kind |-> "none", items |-> <<>>]
ListOf(items) == [kind |-> "list", items |-> items]
TupleOf(items) == [kind |-> "tuple", items |-> items]

Operators == {"slice", "in", "not_in", "range"}

\* ConditionOperator.value as a text
OperatorText(o) ==
    CASE o = "slice" -> <<"s", "l", "i", "c", "e">>
      [] o = "in" -> <<"i", "n">>
      [] o = "not_in" -> <<"n", "o", "t", "_", "i", "n">>
      [] o = "range" -> <<"r", "a", "n", "g", "e">>

\* Condition._validate: TRUE when it raises ValueError
validate_raises(operator, values) ==
    CASE operator = "slice" -> values.kind # "none"
      [] operator \in {"in", "not_in"} ->
            \/ values.kind = "none"
            \/ values.kind \notin {"list", "tuple", "set"}
      [] operator = "range" ->
            \/ values.kind # "none" /\ values.kind \notin {"tuple", "list"}
            \/ values.kind # "none" /\ Len(values.items) # 2
      [] OTHER -> FALSE

\* Condition(field_name, operator, values): [raised, condition]
Condition(field_name, operator, values) ==
    [raised |-> operator \notin Operators \/ validate_raises(operator, values),
     condition |-> [field_name |-> field_name, operator |-> operator, values |-> values]]

slice_condition(field_name) == Condition(field_name, "slice", NoValues)
in_condition(field_name, values) == Condition(field_name, "in", ListOf(values))
not_in_condition(field_name, values) == Condition(field_name, "not_in", ListOf(values))
range_condition(field_name, min_val, max_val) ==
    Condition(field_name, "range", TupleOf(<<min_val, max_val>>))

\* text.strip()
RECURSIVE LStrip(_)
LStrip(text) == IF text # <<>> /\ Head(text) = " " THEN LStrip(Tail(text)) ELSE text
RECURSIVE RStrip(_)
RStrip(text) == IF text # <<>> /\ Last(text) = " " THEN RStrip(Front(text)) ELSE text
Strip(text) == RStrip(LStrip(text))

Digits == <<"0", "1", "2", "3", "4", "5", "6", "7", "8", "9">>
IsDigit(c) == \E k \in DOMAIN Digits : Digits[k] = c
DigitValue(c) == (CHOOSE k \in DOMAIN Digits : Digits[k] = c) - 1

RECURSIVE Pow10(_)
Pow10(k) == IF k = 0 THEN 1 ELSE 10 * Pow10(k - 1)

\* the number a text of digits denotes
RECURSIVE DigitsValue(_)
DigitsValue(text) ==
    IF text = <<>> THEN 0 ELSE 10 * DigitsValue(Front(text)) + DigitValue(Last(text))

\* the digits of a natural number
RECURSIVE NatText(_)
NatText(k) ==
    IF k < 10 THEN <<Digits[k + 1]>> ELSE NatText(k \div 10) \o <<Digits[(k % 10) + 1]>>

DotAt(text) == {i \in DOMAIN text : text[i] = "."}

\* float(text) succeeds: digits with at most one ".", and a digit somewhere
\* (the texts of the model hold no sign, exponent, underscore or letter form).
IsFloatText(text0) ==
    LET text == Strip(text0)
    IN  /\ \E i \in DOMAIN text : IsDigit(text[i])
        /\ \A i \in DOMAIN text : IsDigit(text[i]) \/ text[i] = "."
        /\ Cardinality(DotAt(text)) <= 1

RECURSIVE DropZeros(_)
DropZeros(f) == IF f # <<>> /\ Last(f) = "0" THEN DropZeros(Front(f)) ELSE f

\* float(text), where IsFloatText(text): over the least power of ten
ParseFloat(text0) ==
    LET text == Strip(text0)
        dot == IF DotAt(text) = {} THEN Len(text) + 1 ELSE CHOOSE i \in DotAt(text) : TRUE
        int == SubSeq(text, 1, dot - 1)
        frac == DropZeros(SubSeq(text, dot + 1, Len(text)))
    IN  TFloat(DigitsValue(int) * Pow10(Len(frac)) + DigitsValue(frac), Pow10(Len(frac)))

\* the digits of k, padded with zeros on the left to width w
RECURSIVE PadText(_, _)
PadText(k, w) == IF w = 0 THEN <<>> ELSE PadText(k \div 10, w - 1) \o <<Digits[(k % 10) + 1]>>

RECURSIVE Log10(_)
Log10(dd) == IF dd = 1 THEN 0 ELSE 1 + Log10(dd \div 10)

\* str(v) of a float, a str or None
ValueText(v) ==
    CASE v.t = "none" -> <<"N", "o", "n", "e">>
      [] v.t = "str" -> v.s
      [] OTHER -> NatText(v.n \div v.d) \o <<".">> \o
                  (IF v.d = 1 THEN <<"0">> ELSE PadText(v.n % v.d, Log10(v.d)))

Contains(text, c) == \E i \in DOMAIN text : text[i] = c

\* Condition._format_value
format_value(value) ==
    LET value_str == ValueText(value)
    IN  IF Contains(value_str, ":") \/ Contains(value_str, ",")
        THEN <<"(">> \o value_str \o <<")">>
        ELSE value_str

\* sep.join(parts) of texts
RECURSIVE JoinText(_, _)
JoinText(parts, sep) ==
    IF parts = <<>> THEN <<>>
    ELSE IF Len(parts) = 1 THEN parts[1]
    ELSE parts[1] \o sep \o JoinText(Tail(parts), sep)

\* Condition.__str__
condition_str(c) ==
    CASE c.operator = "slice" -> c.field_name
      [] c.operator \in {"in", "not_in"} ->
            c.field_name \o <<":">> \o OperatorText(c.operator) \o <<":">> \o
            JoinText([i \in DOMAIN c.values.items |-> format_value(c.values.items[i])], <<",">>)
      [] c.operator = "range" ->
            c.field_name \o <<":">> \o OperatorText(c.operator) \o <<":">> \o
            (IF c.values.items # <<>>
             THEN LET min_val == c.values.items[1]
                      max_val == c.values.items[2]
                  IN  (IF min_val # TNone THEN format_value(min_val) ELSE <<>>) \o <<":">> \o
                      (IF max_val # TNone THEN format_value(max_val) ELSE <<>>)
             ELSE <<":">>)

\* _parse_value
parse_value(value_str0) ==
    LET value_str == Strip(value_str0)
    IN  IF value_str # <<>> /\ Head(value_str) = "(" /\ Last(value_str) = ")"
        THEN SubSeq(value_str, 2, Len(value_str) - 1)
        ELSE value_str

\* The loop of _smart_split from character i on.
RECURSIVE SplitLoop(_, _, _, _, _, _)
SplitLoop(text, delimiter, i, parts, current_part, bracket_depth) ==
    IF i > Len(text)
    THEN IF current_part # <<>> THEN Append(parts, current_part) ELSE parts
    ELSE LET char == text[i]
         IN  CASE char = "(" ->
                    SplitLoop(text, delimiter, i + 1, parts,
                              Append(current_part, char), bracket_depth + 1)
               [] char = ")" ->
                    SplitLoop(text, delimiter, i + 1, parts,
                              Append(current_part, char), bracket_depth - 1)
               [] char \notin {"(", ")"} /\ char = delimiter /\ bracket_depth = 0 ->
                    SplitLoop(text, delimiter, i + 1, Append(parts, current_part),
                              <<>>, bracket_depth)
               [] OTHER ->
                    SplitLoop(text, delimiter, i + 1, parts,
                              Append(current_part, char), bracket_depth)

smart_split(text, delimiter) == SplitLoop(text, delimiter, 1, <<>>, <<>>, 0)

\* float(text) if it parses, else the text itself
FloatOrStr(text) == IF IsFloatText(text) THEN ParseFloat(text) ELSE TStr(text)

\* the values of an "in" or "not_in" condition
ParseValueList(values_str) ==
    LET raw_values == smart_split(values_str, ",")
        kept == SelectSeq(raw_values, LAMBDA v : Strip(v) # <<>>)
    IN  [i \in DOMAIN kept |-> TStr(parse_value(kept[i]))]

\* create_condition: [none, condition]; none when it returns None
create_condition(field_name, operator, values_str) ==
    CASE operator = OperatorText("in") ->
            IF values_str = <<>> THEN [none |-> TRUE, condition |-> <<>>]
            ELSE LET r == in_condition(field_name, ParseValueList(values_str))
                 IN  [none |-> r.raised, condition |-> r.condition]
      [] operator = OperatorText("not_in") ->
            IF values_str = <<>> THEN [none |-> TRUE, condition |-> <<>>]
            ELSE LET r == not_in_condition(field_name, ParseValueList(values_str))
                 IN  [none |-> r.raised, condition |-> r.condition]
      [] operator = OperatorText("range") ->
            LET range_parts == IF values_str # <<>> THEN smart_split(values_str, ":")
                               ELSE <<<<>>, <<>>>>
                min_val == IF Len(range_parts) >= 1 /\ range_parts[1] # <<>>
                           THEN FloatOrStr(parse_value(range_parts[1])) ELSE TNone
                max_val == IF Len(range_parts) >= 2 /\ range_parts[2] # <<>>
                           THEN FloatOrStr(parse_value(range_parts[2])) ELSE TNone
                r == range_condition(field_name, min_val, max_val)
            IN  [none |-> r.raised, condition |-> r.condition]
      [] OTHER -> [none |-> TRUE, condition |-> <<>>]

\* The conditions one ";"-part of the text adds.
ParsePart(part0) ==
    LET part == Strip(part0)
        components == smart_split(part, ":")
    IN  IF part = <<>> THEN <<>>
        ELSE IF Len(components) = 1 THEN <<slice_condition(components[1]).condition>>
        ELSE LET field_name == Strip(components[1])
                 operator == Strip(components[2])
                 values_str == JoinText(SubSeq(components, 3, Len(components)), <<":">>)
                 r == create_condition(field_name, operator, values_str)
             IN  IF r.none THEN <<>> ELSE <<r.condition>>

RECURSIVE ParseParts(_)
ParseParts(condition_parts) ==
    IF condition_parts = <<>> THEN <<>>
    ELSE ParsePart(Head(condition_parts)) \o ParseParts(Tail(condition_parts))

parse_conditions(text) ==
    IF Strip(text) = <<>> THEN <<>>
    ELSE ParseParts(smart_split(text, ";"))

----------------------------------------------------------------------------
(* The inputs and operations of the condition model. *)

Alphabet == {"a", "1", ":", ",", ";", "(", ")", " "}

FieldF == <<"f">>

InputTexts ==
    BoundedSeq(Alphabet, MaxStrLen) \cup
    {FieldF \o <<":">> \o OperatorText(o) \o <<":">> \o v :
        o \in {"in", "not_in", "range"}, v \in BoundedSeq(Alphabet, MaxStrLen)}

NoAggregation ==
    /\ data = <<>>
    /\ slices = <<>>
    /\ absent_metrics_strategy = ALL_OR_NOTHING

InitParse ==
    /\ conditions_str \in InputTexts
    /\ NoAggregation
    /\ Idle
    /\ callers = <<>>
    /\ cache = <<>>
    /\ heap = <<>>
    /\ table = <<>>
    /\ params = <<>>
    /\ column_tree = <<>>
    /\ prune_all_entries = TRUE

\* parse_conditions(conditions_str); arg keeps the condition the text was
\* formatted from, if any.
ParseConditions ==
    /\ op' = "parse_conditions"
    /\ out' = parse_conditions(conditions_str)
    /\ UNCHANGED <<data, slices, absent_metrics_strategy, conditions_str, arg, prune_all_entries, column_tree, params, table, heap, cache, callers>>

\* str(c) of a condition c that parse_conditions returned for an input text
\* (one round trip: a text that was formatted is parsed, not formatted again)
FormatCondition ==
    /\ op = "parse_conditions"
    /\ arg = <<>>
    /\ \E i \in DOMAIN out :
        /\ conditions_str' = condition_str(out[i])
        /\ arg' = <<out[i]>>
        /\ op' = "str"
        /\ out' = <<>>
    /\ UNCHANGED <<data, slices, absent_metrics_strategy, prune_all_entries, column_tree, params, table, heap, cache, callers>>

NextParse == ParseConditions \/ FormatCondition

SpecParse == InitParse /\ [][NextParse]_vars

\* The values a caller may hand to the constructor.
ValueItems == {TStr(<<"a">>), TFloat(1, 1), TNone}
ValueChoices ==
    {NoValues} \cup
    {[kind |-> k, items |-> items] :
        k \in {"list", "tuple", "set", "other"}, items \in BoundedSeq(ValueItems, MaxValues)}

InitCondition ==
    /\ conditions_str = <<>>
    /\ NoAggregation
    /\ Idle
    /\ callers = <<>>
    /\ cache = <<>>
    /\ heap = <<>>
    /\ table = <<>>
    /\ params = <<>>
    /\ column_tree = <<>>
    /\ prune_all_entries = TRUE

\* Condition(field_name, operator, values)
NewCondition ==
    \E operator \in Operators \cup {"bogus"}, values \in ValueChoices :
        /\ op' = "Condition"
        /\ arg' = <<operator, values>>
        /\ out' = Condition(FieldF, operator, values)
        /\ UNCHANGED <<data, slices, absent_metrics_strategy, conditions_str, prune_all_entries, column_tree, params, table, heap, cache, callers>>

NextCondition == NewCondition

SpecCondition == InitCondition /\ [][NextCondition]_vars

----------------------------------------------------------------------------
(* Claims on the condition language. *)

\* C8: formatting a condition that parse_conditions returned and parsing
\* the text again returns exactly that one condition.
C8_ParseOfStrIsIdentity ==
    (op = "parse_conditions" /\ arg # <<>>) => out = arg

\* C9: a condition the constructor accepts has matching operator and values:
\* none for a Slice, a non-empty list for In and NotIn, none or exactly two
\* bounds for a Range.
C9_AcceptedConditionIsValid ==
    (op = "Condition" /\ ~out.raised) =>
        LET c == out.condition
        IN  /\ c.operator = "slice" => c.values.kind = "none"
            /\ c.operator \in {"in", "not_in"} =>
                   c.values.kind # "none" /\ c.values.items # <<>>
            /\ c.operator = "range" =>
                   c.values.kind = "none" \/ Len(c.values.items) = 2

----------------------------------------------------------------------------
(* CategorizeMetadataConversion *)

files == <<"files">>

\* The texts of the model that _is_timestamp_like accepts: the date-only
\* pattern ^\d{4}-\d{2}-\d{2}$ matches the first, strptime with the format
\* %Y-%m-%dT%H:%M:%S%z parses the others, and none of the other texts passes.
TimestampTexts ==
    {"2025-05-23", "1970-01-01T00:00:00+00:00", "1970-01-01T00:00:01+00:00",
     "1970-01-01T00:00:02+00:00"}

is_timestamp_like(value) == value.t = "str" /\ value.s \in TimestampTexts

\* field_values[field_name]: the fetched values of the entries whose
\* metadata holds the key, in the order of the entries
FieldValues(d, field_name) ==
    LET holders == SelectSeq([i \in DOMAIN d |-> i],
                             LAMBDA i : field_name \in DOMAIN d[i].metadata)
    IN  [k \in DOMAIN holders |-> fetch_value(d[holders[k]].metadata, field_name)]

categorize_field(values) ==
    LET non_none_values == SelectSeq(values, LAMBDA v : v # None)
        unique_values == {PyStr(non_none_values[k]) : k \in DOMAIN non_none_values}
        unique_count == Cardinality(unique_values)
    IN  IF non_none_values = <<>> THEN "same"
        ELSE IF unique_count = 1 /\ Len(values) = Len(non_none_values) THEN "same"
        ELSE IF unique_count = 1 /\ Len(values) > Len(non_none_values) THEN "group"
        ELSE IF unique_count = Len(non_none_values)
        THEN IF is_timestamp_like(non_none_values[1]) THEN "timestamp" ELSE "unique"
        ELSE "group"

\* CategorizeMetadataConversion.convert: data after the call, which is also
\* the list it returns
categorize(d) ==
    [i \in DOMAIN d |->
        [d[i] EXCEPT !.metadata =
            [field_name \in DOMAIN d[i].metadata |->
                LET field_data == d[i].metadata[field_name]
                    category == Str(categorize_field(FieldValues(d, field_name)))
                IN  IF field_name = files THEN field_data
                    ELSE IF IsDict(field_data) THEN DictSet(field_data, "category", category)
                    ELSE [value |-> field_data, category |-> category]]]]

\* The data of the field agent: missing, text, empty text, a date, a dict.
AgentChoices ==
    {[k \in {} |-> None]} \cup
    {(agent :> v) : v \in {Str("a"), Str("b"), Str(""), Str("2025-05-23")}} \cup
    {(agent :> ("value" :> Str("a")))}

FilesChoices == {[k \in {} |-> None], (files :> Str("a"))}

CategorizeEntries == {Entry(a @@ fl, <<>>) : a \in AgentChoices, fl \in FilesChoices}

InitCategorize ==
    /\ data \in BoundedSeq(CategorizeEntries, MaxEntries)
    /\ slices = <<>>
    /\ absent_metrics_strategy = ALL_OR_NOTHING
    /\ conditions_str = <<>>
    /\ Idle
    /\ callers = <<>>
    /\ cache = <<>>
    /\ heap = <<>>
    /\ table = <<>>
    /\ params = <<>>
    /\ column_tree = <<>>
    /\ prune_all_entries = TRUE

\* CategorizeMetadataConversion().convert(data); arg keeps the entries as
\* they were handed in.
Categorize ==
    /\ op' = "categorize"
    /\ arg' = data
    /\ data' = categorize(data)
    /\ out' = data'
    /\ UNCHANGED <<slices, absent_metrics_strategy, conditions_str, prune_all_entries, column_tree, params, table, heap, cache, callers>>

NextCategorize == Categorize

SpecCategorize == InitCategorize /\ [][NextCategorize]_vars

\* The fetched value of the field in entry e, None when e does not carry it.
ValueIn(e, field_name) ==
    IF field_name \in DOMAIN e.metadata THEN fetch_value(e.metadata, field_name) ELSE None

\* The categories the claim allows for a field over the entries d; a field
\* with no value in any entry is left open.
AllowedCategories(d, field_name) ==
    LET present == {i \in DOMAIN d : ValueIn(d[i], field_name) # None}
        distinct == {ValueIn(d[i], field_name) : i \in present}
    IN  IF present = {} THEN {"same", "group", "unique", "timestamp"}
        ELSE IF Cardinality(distinct) = 1
        THEN IF present # DOMAIN d THEN {"group"} ELSE {"same"}
        ELSE IF Cardinality(distinct) = Cardinality(present) THEN {"timestamp", "unique"}
        ELSE {"group"}

\* C10: a field with one distinct value is "group" when some entry lacks it
\* (an entry without the key included) and "same" otherwise; with all values
\* distinct it is "timestamp" or "unique"; in any other case "group".
C10_CategoryFollowsDistribution ==
    op = "categorize" =>
        \A i \in DOMAIN data : \A field_name \in DOMAIN data[i].metadata \ {files} :
            data[i].metadata[field_name]["category"].s \in AllowedCategories(arg, field_name)

----------------------------------------------------------------------------
(* PruneConversion: removal of the metrics flagged "prune". *)

\* value.get("prune", False) of a metric
PruneFlag(value) == "prune" \in DOMAIN value /\ Truthy(value["prune"])

\* The dict that keeps the items of d whose key is in keys.
Keep(d, keys) == [k \in keys |-> d[k]]

\* PruneConversion._prune(entry)
prune(entry) ==
    [entry EXCEPT !.metrics =
        Keep(entry.metrics, {key \in DOMAIN entry.metrics : ~PruneFlag(entry.metrics[key])})]

\* The second loop of _find_metrics_to_prune_globally from entry i on: each
\* entry takes out of metric_keys the keys it lacks (its metric_value is then
\* the empty dict) or does not flag.
RECURSIVE PruneKeysLoop(_, _, _)
PruneKeysLoop(d, i, metric_keys) ==
    IF i > Len(d) THEN metric_keys
    ELSE LET keys_to_remove ==
                 {metric_key \in metric_keys :
                     ~(metric_key \in DOMAIN d[i].metrics
                       /\ PruneFlag(d[i].metrics[metric_key]))}
         IN  PruneKeysLoop(d, i + 1, metric_keys \ keys_to_remove)

\* A variant that lets an entry without the metric count as flagging it.
FindPresentFlagged(d) ==
    {key \in UNION {DOMAIN d[i].metrics : i \in DOMAIN d} :
        \A i \in DOMAIN d : key \in DOMAIN d[i].metrics => PruneFlag(d[i].metrics[key])}

\* PruneConversion._find_metrics_to_prune_globally(data)
find_metrics_to_prune_globally(d) ==
    IF d = <<>> THEN {}
    ELSE PruneKeysLoop(d, 1, UNION {DOMAIN d[i].metrics : i \in DOMAIN d})

\* PruneConversion._prune_globally(entry, metrics_to_prune)
prune_globally(entry, metrics_to_prune) ==
    [entry EXCEPT !.metrics = Keep(entry.metrics, DOMAIN entry.metrics \ metrics_to_prune)]

PruneGloballyAll(d, metrics_to_prune) ==
    [i \in DOMAIN d |-> prune_globally(d[i], metrics_to_prune)]

\* PruneConversion(prune_all_entries).convert(data): the entries of the list
\* are given their new metrics in place and the list itself is returned.
prune_convert(d, all_entries) ==
    IF all_entries THEN [i \in DOMAIN d |-> prune(d[i])]
    ELSE PruneGloballyAll(d, find_metrics_to_prune_globally(d))

\* value.get("prune", False) raises AttributeError for a metric that is no dict
prune_raises(entry) == \E key \in DOMAIN entry.metrics : ~IsDict(entry.metrics[key])

\* Whether the second loop of _find_metrics_to_prune_globally from entry i
\* on reads a metric that is no dict.
RECURSIVE FindRaises(_, _, _)
FindRaises(d, i, metric_keys) ==
    IF i > Len(d) THEN FALSE
    ELSE \/ \E metric_key \in metric_keys :
                metric_key \in DOMAIN d[i].metrics /\ ~IsDict(d[i].metrics[metric_key])
         \/ FindRaises(d, i + 1,
                {metric_key \in metric_keys :
                    metric_key \in DOMAIN d[i].metrics /\ PruneFlag(d[i].metrics[metric_key])})

\* The first entry at which the loop of convert over _prune raises, or
\* Len(d) + 1
FirstPruneRaise(d) ==
    IF \E i \in DOMAIN d : prune_raises(d[i])
    THEN CHOOSE i \in DOMAIN d : prune_raises(d[i]) /\ \A j \in 1..(i - 1) : ~prune_raises(d[j])
    ELSE Len(d) + 1

\* PruneConversion(prune_all_entries).convert(data) with its exception:
\* [raised, entries], entries being the entries of data as the call leaves them.
prune_result(d, all_entries) ==
    IF all_entries
    THEN [raised |-> FirstPruneRaise(d) <= Len(d),
          entries |-> [i \in DOMAIN d |-> IF i < FirstPruneRaise(d) THEN prune(d[i]) ELSE d[i]]]
    ELSE IF d # <<>> /\ FindRaises(d, 1, UNION {DOMAIN d[i].metrics : i \in DOMAIN d})
    THEN [raised |-> TRUE, entries |-> d]
    ELSE [raised |-> FALSE, entries |-> prune_convert(d, FALSE)]

MetricY == <<"y">>

\* Metric x: missing, not flagged, flagged, flagged false; metric y: missing
\* or flagged.
PruneMetricsChoices ==
    {mx @@ my :
        mx \in {<<>>, (MetricX :> ("value" :> Num(1))),
                (MetricX :> [value |-> Num(1), prune |-> Bool(TRUE)]),
                (MetricX :> [value |-> Num(1), prune |-> Bool(FALSE)])},
        my \in {<<>>, (MetricY :> [value |-> Num(3), prune |-> Bool(TRUE)])}}

PruneEntries == {Entry(md, ms) : md \in {<<>>, (agent :> Str("a"))}, ms \in PruneMetricsChoices}

InitPrune ==
    /\ data \in BoundedSeq(PruneEntries, MaxEntries)
    /\ prune_all_entries \in BOOLEAN
    /\ slices = <<>>
    /\ absent_metrics_strategy = ALL_OR_NOTHING
    /\ conditions_str = <<>>
    /\ Idle
    /\ callers = <<>>
    /\ cache = <<>>
    /\ heap = <<>>
    /\ table = <<>>
    /\ params = <<>>
    /\ column_tree = <<>>

\* PruneConversion(prune_all_entries=prune_all_entries).convert(data); arg
\* keeps the entries as they were handed in.
Prune ==
    /\ op' = "prune"
    /\ arg' = data
    /\ data' = prune_convert(data, prune_all_entries)
    /\ out' = data'
    /\ UNCHANGED <<slices, absent_metrics_strategy, conditions_str, prune_all_entries, column_tree, params, table, heap, cache, callers>>

NextPrune == Prune

SpecPrune == InitPrune /\ [][NextPrune]_vars

\* The metric key is present and flagged prune in every entry of d.
FlaggedInAll(d, key) ==
    \A j \in DOMAIN d : key \in DOMAIN d[j].metrics /\ PruneFlag(d[j].metrics[key])

\* C11: in column mode a metric key is removed from an entry iff it is
\* present and flagged prune in every entry of the batch, so each key goes
\* from all entries or from none; every metric that stays keeps its data, and
\* names and metadata are unchanged.
C11_ColumnPruneIffFlaggedInAll ==
    (op = "prune" /\ ~prune_all_entries) =>
        /\ Len(out) = Len(arg)
        /\ \A i \in DOMAIN arg :
            /\ out[i].name = arg[i].name
            /\ out[i].metadata = arg[i].metadata
            /\ DOMAIN out[i].metrics =
                   {key \in DOMAIN arg[i].metrics : ~FlaggedInAll(arg, key)}
            /\ \A key \in DOMAIN out[i].metrics : out[i].metrics[key] = arg[i].metrics[key]

\* Column mode met a metric flagged in every entry next to one that is
\* flagged in some entries and missing from another, and removed the first.
C11_Witness ==
    /\ op = "prune"
    /\ ~prune_all_entries
    /\ Len(arg) >= 2
    /\ FlaggedInAll(arg, MetricY)
    /\ \E i, j \in DOMAIN arg :
        /\ MetricX \in DOMAIN arg[i].metrics /\ PruneFlag(arg[i].metrics[MetricX])
        /\ MetricX \notin DOMAIN arg[j].metrics
    /\ \A i \in DOMAIN out : DOMAIN out[i].metrics = DOMAIN arg[i].metrics \ {MetricY}

----------------------------------------------------------------------------
(* ColumnNode: the column tree of a table and its selection states.  The    *)
(* tree is a function from column_node_id to the node's fields; children    *)
(* holds the ids of the child nodes in their order.                         *)

ALL == "all"
NONE == "none"
PARTIAL == "partial"

MaxIds == 1

ColumnNode(children) == [children |-> children, selection_state |-> NONE]

\* The tree create_column_tree builds for entries with the metadata field
\* agent and the metric x (with min_value and max_value); every node starts
\* in state NONE.
FreshTree ==
    [column_node_id \in {"/", "/metadata/", "/metadata/agent", "/metrics/", "/metrics/x",
                         "/metrics/x/max_value", "/metrics/x/min_value"} |->
        CASE column_node_id = "/" -> ColumnNode(<<"/metadata/", "/metrics/">>)
          [] column_node_id = "/metadata/" -> ColumnNode(<<"/metadata/agent">>)
          [] column_node_id = "/metrics/" -> ColumnNode(<<"/metrics/x">>)
          [] column_node_id = "/metrics/x" ->
                 ColumnNode(<<"/metrics/x/max_value", "/metrics/x/min_value">>)
          [] OTHER -> ColumnNode(<<>>)]

\* The ids of the model in the order of Python's str comparison; the last
\* one names no node of a tree.
IdOrder ==
    <<"/", "/metadata/", "/metadata/agent", "/metadata/time_end_utc",
      "/metadata/time_end_utc/max_value", "/metadata/time_end_utc/min_value",
      "/metadata/time_end_utc/n_samples", "/metadata/x", "/metrics/", "/metrics/x", "/metrics/x/max_value",
      "/metrics/x/min_value", "/metrics/x/n_samples", "/metrics/z">>

IdRank(id) == CHOOSE i \in DOMAIN IdOrder : IdOrder[i] = id

\* ColumnNode.is_leaf: not column_node_id.endswith("/")
is_leaf(column_node_id) ==
    column_node_id \notin {"/", "/metadata/", "/metrics/"}

NoNode == "None"

\* The loop of find_node_by_id over children from child i on; it gives the
\* child with the id, or the candidate to search in.
RECURSIVE FindLoop(_, _, _, _)
FindLoop(children, i, node_id, candidate) ==
    IF i > Len(children) THEN [found |-> FALSE, node |-> candidate]
    ELSE IF children[i] = node_id THEN [found |-> TRUE, node |-> children[i]]
    ELSE IF IdRank(children[i]) < IdRank(node_id)
    THEN FindLoop(children, i + 1, node_id, children[i])
    ELSE [found |-> FALSE, node |-> candidate]

\* self.find_node_by_id(node_id) of the node self of tree
RECURSIVE find_node_by_id(_, _, _)
FindIn(tree, r, node_id) ==
    IF r.found THEN r.node
    ELSE IF r.node # NoNode THEN find_node_by_id(tree, r.node, node_id)
    ELSE NoNode

find_node_by_id(tree, self, node_id) ==
    IF self = node_id THEN self
    ELSE IF Len(tree[self].children) = 0 THEN NoNode
    ELSE FindIn(tree, FindLoop(tree[self].children, 1, node_id, NoNode), node_id)

SetState(tree, self, state) == [tree EXCEPT ![self].selection_state = state]

\* ColumnNode._update_selection_state of the node self
UpdatedState(tree, self, states) ==
    IF \A i \in DOMAIN states : states[i] = ALL THEN ALL
    ELSE IF \A i \in DOMAIN states : states[i] = NONE THEN NONE
    ELSE PARTIAL

update_selection_state(tree, self) ==
    IF tree[self].children = <<>> THEN tree
    ELSE IF is_leaf(self) /\ tree[self].selection_state = ALL THEN tree
    ELSE SetState(tree, self,
             UpdatedState(tree, self,
                 [i \in DOMAIN tree[self].children |->
                     tree[tree[self].children[i]].selection_state]
                 \o (IF is_leaf(self) THEN <<tree[self].selection_state>> ELSE <<>>)))

\* ColumnNode._propagate_selection_states: the children first, then self
RECURSIVE propagate_selection_states(_, _)
RECURSIVE PropagateChildren(_, _, _)
PropagateChildren(tree, children, i) ==
    IF i > Len(children) THEN tree
    ELSE PropagateChildren(propagate_selection_states(tree, children[i]), children, i + 1)

\* A variant that updates the node before its children.
PropagateTopDown(tree, self) ==
    PropagateChildren(update_selection_state(tree, self), tree[self].children, 1)

propagate_selection_states(tree, self) ==
    update_selection_state(PropagateChildren(tree, tree[self].children, 1), self)

\* ColumnNode._select
RECURSIVE select(_, _)
RECURSIVE SelectChildren(_, _, _)
SelectChildren(tree, children, i) ==
    IF i > Len(children) THEN tree
    ELSE SelectChildren(select(tree, children[i]), children, i + 1)

\* A variant that carries the selection on to the subfields of a leaf.
SelectWithSubfields(tree, self) ==
    IF tree[self].selection_state = ALL THEN tree
    ELSE SelectChildren(SetState(tree, self, ALL), tree[self].children, 1)

select(tree, self) ==
    IF tree[self].selection_state = ALL THEN tree
    ELSE IF is_leaf(self) THEN SetState(tree, self, ALL)
    ELSE SelectChildren(SetState(tree, self, ALL), tree[self].children, 1)

\* ColumnNode._deselect
RECURSIVE deselect(_, _)
RECURSIVE DeselectChildren(_, _, _)
DeselectChildren(tree, children, i) ==
    IF i > Len(children) THEN tree
    ELSE DeselectChildren(deselect(tree, children[i]), children, i + 1)

deselect(tree, self) ==
    IF tree[self].selection_state = NONE THEN tree
    ELSE DeselectChildren(SetState(tree, self, NONE), tree[self].children, 1)

\* The loop of add_selection over column_node_ids from id i on.
RECURSIVE SelectIds(_, _, _)
SelectFound(tree, node) == IF node # NoNode THEN select(tree, node) ELSE tree

SelectIds(tree, column_node_ids, i) ==
    IF i > Len(column_node_ids) THEN tree
    ELSE SelectIds(SelectFound(tree, find_node_by_id(tree, "/", column_node_ids[i])),
                   column_node_ids, i + 1)

\* root.add_selection(column_node_ids)
add_selection(tree, column_node_ids) ==
    propagate_selection_states(SelectIds(tree, column_node_ids, 1), "/")

\* The loop of remove_selection over column_node_ids from id i on.
RECURSIVE DeselectIds(_, _, _)
DeselectFound(tree, node) == IF node # NoNode THEN deselect(tree, node) ELSE tree

DeselectIds(tree, column_node_ids, i) ==
    IF i > Len(column_node_ids) THEN tree
    ELSE DeselectIds(DeselectFound(tree, find_node_by_id(tree, "/", column_node_ids[i])),
                     column_node_ids, i + 1)

\* root.remove_selection(column_node_ids)
remove_selection(tree, column_node_ids) ==
    propagate_selection_states(DeselectIds(tree, column_node_ids, 1), "/")

\* The lists of ids a caller hands in.
IdLists == BoundedSeq(DOMAIN FreshTree \cup {"/metrics/z"}, MaxIds)

InitSelection ==
    /\ heap = <<>>
    /\ cache = <<>>
    /\ callers = <<>>
    /\ column_tree = FreshTree
    /\ data = <<>>
    /\ slices = <<>>
    /\ absent_metrics_strategy = ALL_OR_NOTHING
    /\ conditions_str = <<>>
    /\ prune_all_entries = TRUE
    /\ params = <<>>
    /\ table = <<>>
    /\ op = "init"
    /\ arg = <<>>
    /\ out = <<>>

\* column_tree.add_selection(column_node_ids); out keeps the tree as it was
\* before the call.
AddSelection ==
    \E column_node_ids \in IdLists :
        /\ op' = "add_selection"
        /\ arg' = column_node_ids
        /\ out' = column_tree
        /\ column_tree' = add_selection(column_tree, column_node_ids)
        /\ UNCHANGED <<data, slices, absent_metrics_strategy, conditions_str, prune_all_entries, params, table, heap, cache, callers>>

\* column_tree.remove_selection(column_node_ids)
RemoveSelection ==
    \E column_node_ids \in IdLists :
        /\ op' = "remove_selection"
        /\ arg' = column_node_ids
        /\ out' = column_tree
        /\ column_tree' = remove_selection(column_tree, column_node_ids)
        /\ UNCHANGED <<data, slices, absent_metrics_strategy, conditions_str, prune_all_entries, params, table, heap, cache, callers>>

NextSelection == AddSelection \/ RemoveSelection

SpecSelection == InitSelection /\ [][NextSelection]_vars

\* The nodes of the subtree of the node self, self included.
RECURSIVE Subtree(_, _)
Subtree(tree, self) ==
    {self} \cup UNION {Subtree(tree, tree[self].children[i]) : i \in DOMAIN tree[self].children}

\* A subfield node: a child of a leaf.
IsSubfield(tree, id) ==
    \E p \in DOMAIN tree : is_leaf(p) /\ \E i \in DOMAIN tree[p].children : tree[p].children[i] = id

\* A leaf (a subfield node included) in state ALL in the subtree of self.
SelectedIn(tree, self) ==
    \E d \in Subtree(tree, self) : is_leaf(d) /\ tree[d].selection_state = ALL

\* C12: from the freshly built tree on, after any add_selection and
\* remove_selection calls, a category node is ALL iff all its children are
\* ALL, and any node is NONE iff no leaf of its subtree (itself and subfield
\* nodes included) is in state ALL; so no node stays PARTIAL once nothing in
\* its subtree is selected.
C12_StatesFollowSelectedLeaves ==
    \A id \in DOMAIN column_tree :
        /\ ~is_leaf(id) =>
               ((column_tree[id].selection_state = ALL) <=>
                   \A i \in DOMAIN column_tree[id].children :
                       column_tree[column_tree[id].children[i]].selection_state = ALL)
        /\ (column_tree[id].selection_state = NONE) <=> ~SelectedIn(column_tree, id)
        /\ column_tree[id].selection_state \in {ALL, NONE, PARTIAL}

\* The categories of the tree named in the list of ids.
NamedCategories(tree, column_node_ids) ==
    {column_node_ids[i] : i \in DOMAIN column_node_ids} \cap {id \in DOMAIN tree : ~is_leaf(id)}

AllWere(column_node_ids, state) ==
    /\ column_node_ids # <<>>
    /\ \A i \in DOMAIN column_node_ids :
        /\ column_node_ids[i] \in DOMAIN out
        /\ out[column_node_ids[i]].selection_state = state

\* C14: add_selection of nodes already in ALL, and remove_selection of nodes
\* already in NONE, leaves them so and changes no other node.
C14_RepeatedSelectionChangesNothing ==
    /\ (op = "add_selection" /\ AllWere(arg, ALL)) => column_tree = out
    /\ (op = "remove_selection" /\ AllWere(arg, NONE)) => column_tree = out

\* add_selection of the leaf x, which was in ALL next to a selected and an
\* unselected subfield.
C14_Witness ==
    /\ op = "add_selection"
    /\ arg = <<"/metrics/x">>
    /\ out["/metrics/x"].selection_state = ALL
    /\ out["/metrics/x/min_value"].selection_state = ALL
    /\ out["/metrics/x/max_value"].selection_state = NONE
    /\ column_tree = out

----------------------------------------------------------------------------
(* The record model of metrics_core, which tells a missing value (None)    *)
(* from a falsy one, and the conversions create_moving_aggregation chains. *)

\* fetch_value(data, field_name) of metrics_core
core_fetch_value(d, field_name) ==
    LET v == Get(d, field_name)
    IN  IF v = None
        THEN IF Len(field_name) > 1 /\ IsDict(Get(d, Front(field_name)))
             THEN Get(Get(d, Front(field_name)), Last(field_name))
             ELSE None
        ELSE IF IsDict(v) THEN Get(v, "value") ELSE v

\* CanonicalMetricsEntry.fetch_value of metrics_core
FetchOr(v, entry, field_name) ==
    IF v = None THEN core_fetch_value(entry.metrics, field_name) ELSE v

core_entry_fetch_value(entry, field_name) ==
    FetchOr(core_fetch_value(entry.metadata, field_name), entry, field_name)

time_end_utc == <<"time_end_utc">>
instance_updated_at == <<"instance_updated_at">>

\* get_sort_key of SortByTimestampConversion.convert
FirstTruthy(timestamp, fallback_timestamp) ==
    IF TruthyData(timestamp) THEN timestamp
    ELSE IF TruthyData(fallback_timestamp) THEN fallback_timestamp
    ELSE Str("")

get_sort_key(entry) ==
    FirstTruthy(core_entry_fetch_value(entry, time_end_utc),
                core_entry_fetch_value(entry, instance_updated_at))

\* The place of entry i in sorted(data, key=get_sort_key, reverse=True): after
\* the entries with a greater key and the earlier entries with an equal key.
SortPlace(d, i) ==
    1 + Cardinality({j \in DOMAIN d :
            \/ PyLess(get_sort_key(d[i]), get_sort_key(d[j]))
            \/ get_sort_key(d[j]) = get_sort_key(d[i]) /\ j < i})

\* SortByTimestampConversion().convert(data)
sort_by_timestamp(d) ==
    [k \in DOMAIN d |-> d[CHOOSE i \in DOMAIN d : SortPlace(d, i) = k]]

\* The timestamps of the model, one second apart from the epoch on.
TimeTexts ==
    <<"1970-01-01T00:00:00+00:00", "1970-01-01T00:00:01+00:00", "1970-01-01T00:00:02+00:00">>

\* time_str_to_ms(time_str): int(datetime.fromisoformat(time_str).timestamp() * 1000)
time_str_to_ms(time_str) ==
    1000 * ((CHOOSE i \in DOMAIN TimeTexts : TimeTexts[i] = time_str) - 1)

\* round(value, ndigits) of a float: the double nearest to the decimal with
\* ndigits places nearest to the exact value, ties to even.
RoundedScaled(scaled, k) == RoundBits(scaled, BigShr(scaled, k), k, FALSE)

Unscale(sign, n, ndigits) ==
    IF n = <<>> THEN FloatZero
    ELSE FloatDiv(Normalize(Float(sign, n, 0)), Pow10(ndigits))

py_round(value, ndigits) ==
    IF value.n = 0 \/ value.e >= 0 THEN value
    ELSE Unscale(value.n, RoundedScaled(BigMulSmall(value.m, Pow10(ndigits), 0), -value.e),
                 ndigits)

----------------------------------------------------------------------------
(* create_moving_aggregation.  The window entries are aggregated by the     *)
(* AggregateConversion modelled above.                                      *)

MaxSamples == 2

\* MovingAggregationParams; the two filter lists are empty and
\* round_precision keeps its default.
MovingAggregationParams(time_granulation, moving_aggregation_field_name, slice_field) ==
    [time_granulation |-> time_granulation,
     moving_aggregation_field_name |-> moving_aggregation_field_name,
     global_filters |-> <<>>,
     moving_aggregation_filters |-> <<>>,
     slice_field |-> slice_field,
     round_precision |-> 2]

\* The field name "": no slice field.
NoSliceField == <<"">>

\* extract_base_field_name(field_name)
extract_base_field_name(field_name) ==
    IF Len(field_name) > 1 /\ Last(field_name) \in {"n_samples", "min_value", "max_value"}
    THEN Front(field_name)
    ELSE field_name

\* The loop that fills slice_values_to_index, from entry i on; the dict is
\* the sequence of its keys in insertion order.
RECURSIVE SliceValuesLoop(_, _, _, _)
SliceValuesLoop(entries, slice_field, i, slice_values_list) ==
    IF i > Len(entries) THEN slice_values_list
    ELSE SliceValuesLoop(entries, slice_field, i + 1,
             IF \E k \in DOMAIN slice_values_list :
                    slice_values_list[k] = PyStr(core_entry_fetch_value(entries[i], slice_field))
             THEN slice_values_list
             ELSE Append(slice_values_list,
                         PyStr(core_entry_fetch_value(entries[i], slice_field))))

SliceValuesList(entries, slice_field) ==
    IF slice_field = NoSliceField THEN <<>>
    ELSE SliceValuesLoop(entries, slice_field, 1, <<>>)

\* fetch_time(entry) of an entry whose time_end_utc is a text
fetch_time(entry) == time_str_to_ms(core_entry_fetch_value(entry, time_end_utc).s)

\* fetch_time(entry) raises: assert isinstance(time_str, str) fails, and
\* without the assert datetime.fromisoformat(time_str) raises TypeError
fetch_time_raises(entry) ==
    IsDict(core_entry_fetch_value(entry, time_end_utc))
    \/ core_entry_fetch_value(entry, time_end_utc).t # "str"

\* int(x / y) for y > 0: the quotient cut towards zero
IntQuotient(x, y) == IF x >= 0 THEN x \div y ELSE -((-x) \div y)

\* The number of entries the inner loop pops from the end of entries: the
\* ones up to the first whose time lies beyond the end of the window.
RECURSIVE PopCount(_, _)
PopCount(entries, window_end) ==
    IF entries = <<>> THEN 0
    ELSE IF fetch_time_raises(Last(entries)) THEN 0
    ELSE IF fetch_time(Last(entries)) > window_end THEN 0
    ELSE 1 + PopCount(Front(entries), window_end)

\* fetch_time raises in the inner loop: the entry after the popped ones has
\* no timestamp text
PopRaises(entries, k) ==
    k < Len(entries) /\ fetch_time_raises(entries[Len(entries) - k])

\* The window_entry made of a popped entry.
WindowEntry(entry, slice_field, base_field_name) ==
    [name |-> "",
     metadata |->
        (IF TruthyData(Get(entry.metadata, base_field_name))
         THEN (base_field_name :> entry.metadata[base_field_name]) ELSE <<>>)
        @@ (slice_field :> Get(entry.metadata, slice_field)),
     metrics |->
        IF TruthyData(Get(entry.metrics, base_field_name))
        THEN (base_field_name :> entry.metrics[base_field_name]) ELSE <<>>]

WindowEntries(entries, k, slice_field, base_field_name) ==
    [j \in 1..k |-> WindowEntry(entries[Len(entries) - j + 1], slice_field, base_field_name)]

\* update_min_max_values(value) on the locals st
update_min_max_values(st, value) ==
    [st EXCEPT
        !.min_value = IF @ = None THEN value ELSE IF FloatCmp(value, @) < 0 THEN value ELSE @,
        !.max_value = IF @ = None THEN value ELSE IF FloatCmp(value, @) > 0 THEN value ELSE @]

\* The value of an aggregated window entry.
WindowValue(value_obj, round_precision) ==
    IF IsDict(value_obj) \/ ~IsNumeric(value_obj) THEN FloatZero
    ELSE py_round(ToFloat(value_obj), round_precision)

\* values[slice_index].append(value), with update_min_max_values(value)
AppendValue(st, slice_index, value) ==
    update_min_max_values([st EXCEPT !.values[slice_index] = Append(@, value)], value)

\* slice_values_to_index[slice_value], 0 for a KeyError
SliceIndex(slice_values_list, slice_value) ==
    IF \E k \in DOMAIN slice_values_list : slice_values_list[k] = slice_value
    THEN CHOOSE k \in DOMAIN slice_values_list : slice_values_list[k] = slice_value
    ELSE 0

\* The loop over the aggregated window entries, from entry i on.
RECURSIVE ValuesLoop(_, _, _, _, _)
PutValue(st, slice_index, value) ==
    IF slice_index = 0 THEN [st EXCEPT !.raised = TRUE] ELSE AppendValue(st, slice_index, value)

ValuesLoop(window_entries, p, slice_values_list, i, st) ==
    IF i > Len(window_entries) \/ st.raised THEN st
    ELSE ValuesLoop(window_entries, p, slice_values_list, i + 1,
             PutValue(st,
                 IF p.slice_field = NoSliceField THEN 1
                 ELSE SliceIndex(slice_values_list,
                          PyStr(core_entry_fetch_value(window_entries[i], p.slice_field))),
                 WindowValue(core_entry_fetch_value(window_entries[i],
                                 p.moving_aggregation_field_name), p.round_precision)))

\* The finally block, from series i on: a series as long as values[0] was
\* before the window gets 0.0.
RECURSIVE PadLoop(_, _, _)
PadLoop(st, num_populated_windows, i) ==
    IF i > Len(st.values) THEN st
    ELSE PadLoop(IF Len(st.values[i]) = num_populated_windows
                 THEN AppendValue(st, i, FloatZero) ELSE st,
                 num_populated_windows, i + 1)

\* A variant whose finally block leaves the series of a window as they are.
NoPadding(st, aggregated, p, slice_values_list, num_populated_windows) ==
    IF aggregated.raised THEN [st EXCEPT !.raised = TRUE]
    ELSE ValuesLoop(aggregated.entries, p, slice_values_list, 1, st)

\* One window after its entries were gathered: aggregate, append, pad.
FillWindow(st, aggregated, p, slice_values_list, num_populated_windows) ==
    IF aggregated.raised THEN [st EXCEPT !.raised = TRUE]
    ELSE PadLoop(ValuesLoop(aggregated.entries, p, slice_values_list, 1, st),
                 num_populated_windows, 1)

\* The while loop over the time windows; popped counts the entries taken
\* from the end of entries so far.
RECURSIVE WindowLoop(_, _, _, _, _, _)
NextWindow(entries, p, slice_values_list, time_window_begin, time_end, k, st) ==
    IF PopRaises(entries, k) THEN [st EXCEPT !.raised = TRUE]
    ELSE
    WindowLoop(SubSeq(entries, 1, Len(entries) - k), p, slice_values_list,
               time_window_begin + p.time_granulation, time_end,
               FillWindow(st,
                   convert(WindowEntries(entries, k, p.slice_field,
                               extract_base_field_name(p.moving_aggregation_field_name)),
                           IF p.slice_field = NoSliceField THEN <<>>
                           ELSE <<cli_slice_condition(p.slice_field)>>,
                           NULLIFY),
                   p, slice_values_list, Len(st.values[1])))

WindowLoop(entries, p, slice_values_list, time_window_begin, time_end, st) ==
    IF time_window_begin >= time_end \/ st.raised THEN st
    ELSE NextWindow(entries, p, slice_values_list, time_window_begin, time_end,
                    PopCount(entries, time_window_begin + p.time_granulation), st)

\* MovingAggregation(...): what create_moving_aggregation returns
MovingAggregation(p, time_begin, time_end, slice_values_list, st) ==
    [raised |-> st.raised,
     time_begin |-> time_begin,
     time_end |-> time_end,
     time_granulation |-> p.time_granulation,
     field_name |-> p.moving_aggregation_field_name,
     slice_field |-> p.slice_field,
     slice_values |-> slice_values_list,
     values |-> st.values,
     min_value |-> IF st.min_value = None THEN FloatZero ELSE st.min_value,
     max_value |-> IF st.max_value = None THEN FloatZero ELSE st.max_value]

\* A variant that rounds the span up to whole windows.
CeilWindowCount(time_begin, time_end, time_granulation) ==
    IntQuotient(time_end - time_begin + time_granulation - 1, time_granulation)

\* The number n of time windows.
WindowCount(time_begin, time_end, time_granulation) ==
    IntQuotient(time_end - time_begin, time_granulation) + 1

\* create_moving_aggregation from line 654 on, for the preprocessed entries
Windows(entries, p, slice_values_list, time_end, n) ==
    MovingAggregation(p, time_end - n * p.time_granulation, time_end, slice_values_list,
        WindowLoop(entries, p, slice_values_list, time_end - n * p.time_granulation, time_end,
            [raised |-> FALSE, min_value |-> None, max_value |-> None,
             values |-> IF slice_values_list = <<>> THEN << <<>> >>
                        ELSE [k \in DOMAIN slice_values_list |-> <<>>]]))

MovingAggregationOf(entries, p) ==
    IF entries = <<>>
    THEN [raised |-> FALSE, time_begin |-> 0, time_end |-> 0,
          time_granulation |-> p.time_granulation,
          field_name |-> p.moving_aggregation_field_name,
          slice_field |-> NoSliceField, slice_values |-> <<>>, values |-> <<>>,
          min_value |-> Num(0), max_value |-> Num(0)]
    ELSE IF fetch_time_raises(entries[1]) \/ fetch_time_raises(entries[Len(entries)])
    THEN [raised |-> TRUE]
    ELSE Windows(entries, p, SliceValuesList(entries, p.slice_field),
                 fetch_time(entries[1]),
                 WindowCount(fetch_time(entries[Len(entries)]), fetch_time(entries[1]),
                             p.time_granulation))

\* create_moving_aggregation(entries, params): the entries are sorted into a
\* new list and categorized in place.
create_moving_aggregation(entries, p) ==
    MovingAggregationOf(categorize(sort_by_timestamp(entries)), p)

\* Entries with a timestamp, the field agent (missing, 1 or "1") and the
\* metric x = 3, and one entry without metrics.
MovingEntries ==
    {Entry((time_end_utc :> Str(TimeTexts[t])) @@ a, (MetricX :> ("value" :> Num(3)))) :
        t \in DOMAIN TimeTexts,
        a \in {<<>>, (agent :> Num(1)), (agent :> Str("1"))}}
    \cup {Entry((time_end_utc :> Str(TimeTexts[1])), <<>>)}

MovingParams ==
    {MovingAggregationParams(g, f, sf) :
        g \in {1000, 2000}, f \in {MetricX, <<"x", "max_value">>}, sf \in {NoSliceField, agent}}

InitMoving ==
    /\ heap = <<>>
    /\ cache = <<>>
    /\ callers = <<>>
    /\ data \in BoundedSeq(MovingEntries, MaxSamples)
    /\ params \in MovingParams
    /\ slices = <<>>
    /\ absent_metrics_strategy = ALL_OR_NOTHING
    /\ conditions_str = <<>>
    /\ prune_all_entries = TRUE
    /\ column_tree = <<>>
    /\ table = <<>>
    /\ op = "init"
    /\ arg = <<>>
    /\ out = <<>>

\* The caller's list after CategorizeMetadataConversion worked on the sorted
\* list: the same entries in the caller's order.
CategorizedInPlace(d, sorted) == [i \in DOMAIN d |-> sorted[SortPlace(d, i)]]

\* create_moving_aggregation(data, params); arg keeps the entries as they
\* were handed in.
CreateMovingAggregation ==
    /\ op' = "create_moving_aggregation"
    /\ arg' = data
    /\ out' = create_moving_aggregation(data, params)
    /\ data' = CategorizedInPlace(data, categorize(sort_by_timestamp(data)))
    /\ UNCHANGED <<slices, absent_metrics_strategy, conditions_str, prune_all_entries, column_tree, params, table, heap, cache, callers>>

NextMoving == CreateMovingAggregation

SpecMoving == InitMoving /\ [][NextMoving]_vars

\* The times of the entries d, in ms.
TimesOf(d) == {fetch_time(d[i]) : i \in DOMAIN d}
MaxOf(S) == CHOOSE x \in S : \A y \in S : y <= x
MinOf(S) == CHOOSE x \in S : \A y \in S : x <= y

\* The least k with k * g >= span.
Ceil(span, g) == (span + g - 1) \div g

\* create_moving_aggregation returned a result for a non-empty entry set.
Emitted ==
    op = "create_moving_aggregation" /\ arg # <<>> /\ ~out.raised

C16_SeriesHaveOneValuePerBucket ==
    Emitted =>
        \A k \in DOMAIN out.values :
            Len(out.values[k]) * params.time_granulation = out.time_end - out.time_begin

\* Entries without time_end_utc, one of them with the fallback timestamp
\* instance_updated_at, next to the entries that carry one.
UntimedEntries ==
    {Entry(<<>>, (MetricX :> ("value" :> Num(3)))),
     Entry((instance_updated_at :> Str(TimeTexts[2])), (MetricX :> ("value" :> Num(3))))}

InitMovingUntimed ==
    /\ heap = <<>>
    /\ cache = <<>>
    /\ callers = <<>>
    /\ data \in BoundedSeq(MovingEntries \cup UntimedEntries, MaxSamples)
    /\ params \in MovingParams
    /\ slices = <<>>
    /\ absent_metrics_strategy = ALL_OR_NOTHING
    /\ conditions_str = <<>>
    /\ prune_all_entries = TRUE
    /\ column_tree = <<>>
    /\ table = <<>>
    /\ op = "init"
    /\ arg = <<>>
    /\ out = <<>>

SpecMovingUntimed == InitMovingUntimed /\ [][NextMoving]_vars

\* C21: create_moving_aggregation returns a MovingAggregation, and does not
\* raise, for every non-empty entry list and positive granularity, also when
\* some or all of the entries have no time_end_utc value.
C21_UntimedEntriesNeverFatal ==
    (op = "create_moving_aggregation" /\ arg # <<>>) => ~out.raised

\* The field behind "Agent Invocations" of IMPORTANT_METRICS
CountField == <<"time_end_utc", "n_samples">>

InitMovingCount ==
    /\ heap = <<>>
    /\ cache = <<>>
    /\ callers = <<>>
    /\ data \in BoundedSeq(MovingEntries, MaxSamples)
    /\ params \in {MovingAggregationParams(g, CountField, NoSliceField) : g \in {1000, 2000}}
    /\ slices = <<>>
    /\ absent_metrics_strategy = ALL_OR_NOTHING
    /\ conditions_str = <<>>
    /\ prune_all_entries = TRUE
    /\ column_tree = <<>>
    /\ table = <<>>
    /\ op = "init"
    /\ arg = <<>>
    /\ out = <<>>

SpecMovingCount == InitMovingCount /\ [][NextMoving]_vars

\* The number of entries of d whose time lies in (lo, hi]
InBucket(d, lo, hi) ==
    Cardinality({i \in DOMAIN d : fetch_time(d[i]) > lo /\ fetch_time(d[i]) <= hi})

\* C26: for the target field time_end_utc/n_samples without a slice field
\* the value of each bucket is the number of entries whose timestamp lies in
\* (bucket_start, bucket_start + granularity], and every entry lies in a
\* bucket, so the values sum to the number of entries; also for a single
\* entry and for entries that share a timestamp.
C26_BucketValueCountsEntries ==
    (Emitted /\ params.moving_aggregation_field_name = CountField
             /\ params.slice_field = NoSliceField) =>
        /\ Len(out.values) = 1
        /\ \A b \in DOMAIN out.values[1] :
               FloatCmp(out.values[1][b],
                        ToFloat(Num(InBucket(arg,
                            out.time_begin + (b - 1) * params.time_granulation,
                            out.time_begin + b * params.time_granulation)))) = 0
        /\ \A i \in DOMAIN arg : \E b \in DOMAIN out.values[1] :
               /\ fetch_time(arg[i]) > out.time_begin + (b - 1) * params.time_granulation
               /\ fetch_time(arg[i]) <= out.time_begin + b * params.time_granulation

----------------------------------------------------------------------------
(* Table.sort_rows.  A TableCell is a record of its values and details, a  *)
(* row a sequence of cells whose first cell names the row, and rows[1] is  *)
(* the header row.                                                         *)

MaxRows == 2

ASC == "asc"
DESC == "desc"

TableCell(values, details) == [values |-> values, details |-> details]
TableColumn(column_id, name) == [column_id |-> column_id, name |-> name]

\* Table.sorted_by = None
NotSorted == <<>>

Table(rows, columns) == [rows |-> rows, columns |-> columns, sorted_by |-> NotSorted]

\* an empty list, a value that is neither a number nor a string
EmptyList == [t |-> "list", n |-> 0, m |-> <<>>, e |-> 0, s |-> ""]

\* str(value) of a value that is no number and no string, and of a dict
StrOfOther(value) ==
    CASE value = <<>> -> "{}"
      [] value = EmptyList -> "[]"

\* the position in columns of the first column with column_id; 0 stands for
\* the None of a column that is not found
RECURSIVE ColumnIndexLoop(_, _, _)
ColumnIndexLoop(columns, column_id, i) ==
    IF i > Len(columns) THEN 0
    ELSE IF columns[i].column_id = column_id THEN i
    ELSE ColumnIndexLoop(columns, column_id, i + 1)

type_multiplier(sort_order) == IF sort_order = DESC THEN -1 ELSE 1

\* the value get_sort_key reads from a cell
SortValue(cell) ==
    IF "value" \in DOMAIN cell.values THEN cell.values["value"]
    ELSE IF "max_value" \in DOMAIN cell.values THEN cell.values["max_value"]
    ELSE Str(StrOfOther(cell.values))

KeyOfValue(value, sort_order) ==
    IF value = None THEN <<3 * type_multiplier(sort_order), Str("")>>
    ELSE IF IsNumeric(value) THEN <<0, value>>
    ELSE IF value.t = "str" THEN <<1 * type_multiplier(sort_order), value>>
    ELSE <<2 * type_multiplier(sort_order), Str(StrOfOther(value))>>

\* get_sort_key(row) of sort_rows; column_index counts the cell of the row
\* name, so the cell is row[column_index + 1] here
table_get_sort_key(row, column_index, sort_order) ==
    IF column_index + 1 > Len(row) THEN <<3 * type_multiplier(sort_order), Str("")>>
    ELSE KeyOfValue(SortValue(row[column_index + 1]), sort_order)

\* a < b of two sort keys: tuples compare by their first differing element
KeyLess(a, b) ==
    \/ a[1] < b[1]
    \/ a[1] = b[1] /\ ~PyEq(a[2], b[2]) /\ PyLess(a[2], b[2])

\* key a sorts before key b
KeyBefore(a, b, reverse) == IF reverse THEN KeyLess(b, a) ELSE KeyLess(a, b)

\* The place of data_rows[i] in sorted(data_rows, key, reverse): the sort is
\* stable, also when reversed.
RowPlace(keys, i, reverse) ==
    1 + Cardinality({j \in DOMAIN keys : KeyBefore(keys[j], keys[i], reverse)})
      + Cardinality({j \in 1..(i - 1) :
                        ~KeyBefore(keys[j], keys[i], reverse) /\ ~KeyBefore(keys[i], keys[j], reverse)})

SortedByKeys(data_rows, keys, reverse) ==
    [p \in DOMAIN data_rows |->
        data_rows[CHOOSE i \in DOMAIN data_rows : RowPlace(keys, i, reverse) = p]]

SortedData(data_rows, column_index, sort_order) ==
    SortedByKeys(data_rows,
                 [i \in DOMAIN data_rows |-> table_get_sort_key(data_rows[i], column_index, sort_order)],
                 sort_order = DESC)

SortRowsAt(t, column_index, column_id, sort_order) ==
    IF column_index = 0 THEN [raised |-> TRUE, table |-> t]
    ELSE IF Len(t.rows) <= 1 THEN [raised |-> FALSE, table |-> t]
    ELSE [raised |-> FALSE,
          table |-> [t EXCEPT !.rows = <<t.rows[1]>> \o
                                       SortedData(Tail(t.rows), column_index, sort_order),
                              !.sorted_by = <<column_id, sort_order>>]]

\* Table.sort_rows(column_id, sort_order): the table afterwards, and whether
\* the call raised ValueError
sort_rows(t, column_id, sort_order) ==
    SortRowsAt(t, ColumnIndexLoop(t.columns, column_id, 1), column_id, sort_order)

\* The cells of the model: no value, None, numbers, strings, a list, and a
\* cell with max_value only.
CellChoices ==
    {TableCell(v, <<>>) :
        v \in {<<>>, ("value" :> None), ("value" :> Num(1)), ("value" :> Num(2)),
               ("value" :> Str("a")), ("value" :> Str("b")), ("value" :> EmptyList),
               ("max_value" :> Num(1))}}

TableColumns == <<TableColumn("/metadata/agent", "agent"), TableColumn("/metrics/x", "x")>>

HeaderRow ==
    <<TableCell(<<>>, <<>>), TableCell(("value" :> Str("agent")), <<>>),
      TableCell(("value" :> Str("x")), <<>>)>>

\* rows with a cell for agent, with or without a cell for x
RowChoices ==
    {<<TableCell(<<>>, <<>>), c>> : c \in CellChoices}
    \cup {<<TableCell(<<>>, <<>>), c, TableCell(("value" :> Num(1)), <<>>)>> : c \in CellChoices}

SortColumnIds == {"/metadata/agent", "/metrics/x", "/metrics/z"}

InitTable ==
    /\ heap = <<>>
    /\ cache = <<>>
    /\ callers = <<>>
    /\ table \in {Table(<<HeaderRow>> \o rows, TableColumns) : rows \in BoundedSeq(RowChoices, MaxRows)}
    /\ data = <<>>
    /\ slices = <<>>
    /\ absent_metrics_strategy = ALL_OR_NOTHING
    /\ conditions_str = <<>>
    /\ prune_all_entries = TRUE
    /\ column_tree = <<>>
    /\ params = <<>>
    /\ op = "init"
    /\ arg = <<>>
    /\ out = <<>>

\* table.sort_rows(column_id, sort_order); out keeps the rows as they were
\* before the call.
SortRows ==
    \E column_id \in SortColumnIds, sort_order \in {ASC, DESC} :
        /\ op' = "sort_rows"
        /\ arg' = <<column_id, sort_order>>
        /\ out' = [raised |-> sort_rows(table, column_id, sort_order).raised, rows |-> table.rows]
        /\ table' = sort_rows(table, column_id, sort_order).table
        /\ UNCHANGED <<data, slices, absent_metrics_strategy, conditions_str, prune_all_entries, column_tree, params, heap, cache, callers>>

NextTable == SortRows

SpecTable == InitTable /\ [][NextTable]_vars

\* sort_rows returned without raising
Sorted == op = "sort_rows" /\ ~out.raised

\* the value of the cell of a row in the sorted column, None when the row
\* has no such cell or the cell holds neither value nor max_value
CellValue(row, column_index) ==
    IF column_index + 1 > Len(row) THEN None
    ELSE IF "value" \in DOMAIN row[column_index + 1].values
         THEN row[column_index + 1].values["value"]
    ELSE IF "max_value" \in DOMAIN row[column_index + 1].values
         THEN row[column_index + 1].values["max_value"]
    ELSE None

SortedColumn == ColumnIndexLoop(table.columns, arg[1], 1)

Occurrences(rows, row) == Cardinality({i \in 2..Len(rows) : rows[i] = row})

\* C17: after sort_rows on an existing column, in either order, row 0 is
\* still the header row, the data rows are a permutation of the previous
\* data rows, every row with a number in the column precedes every row with
\* a string, and every row whose cell value is missing comes after all rows
\* that have a value.
C17_SortKeepsHeaderAndTiers ==
    Sorted =>
        /\ table.rows[1] = out.rows[1]
        /\ Len(table.rows) = Len(out.rows)
        /\ \A i \in 2..Len(out.rows) :
               Occurrences(table.rows, out.rows[i]) = Occurrences(out.rows, out.rows[i])
        /\ \A i, j \in 2..Len(table.rows) :
               /\ (/\ IsNumeric(CellValue(table.rows[i], SortedColumn))
                   /\ CellValue(table.rows[j], SortedColumn).t = "str") => i < j
               /\ (/\ CellValue(table.rows[i], SortedColumn) # None
                   /\ CellValue(table.rows[j], SortedColumn) = None) => i < j

----------------------------------------------------------------------------
(* create_aggregation and create_table of transform_utils.  The filters of *)
(* the model are empty, so no FilterConversion joins a chain, and the      *)
(* entries carry what the conversions of the chain work on: the metadata   *)
(* time_end_utc and agent and the metric x.                                *)

MaxLogs == 2

PruneNone == "none"
PruneAll == "all"
PruneColumn == "column"

\* get_sort_key of SortByTimestampConversion(sort_field_name).convert
get_sort_key_of(entry, sort_field_name) ==
    FirstTruthy(core_entry_fetch_value(entry, sort_field_name),
                core_entry_fetch_value(entry, instance_updated_at))

\* The place of entry i in sorted(data, key=get_sort_key, reverse=True)
SortPlaceOf(d, i, sort_field_name) ==
    1 + Cardinality({j \in DOMAIN d :
            \/ PyLess(get_sort_key_of(d[i], sort_field_name), get_sort_key_of(d[j], sort_field_name))
            \/ /\ get_sort_key_of(d[j], sort_field_name) = get_sort_key_of(d[i], sort_field_name)
               /\ j < i})

\* SortByTimestampConversion(sort_field_name).convert(data)
sort_by_field(d, sort_field_name) ==
    [k \in DOMAIN d |-> d[CHOOSE i \in DOMAIN d : SortPlaceOf(d, i, sort_field_name) = k]]

\* RoundConversion._round of one metric; a metric without "value" raises
\* KeyError
round_metric(value, precision) ==
    IF value["value"].t = "float"
    THEN [value EXCEPT !["value"] = py_round(value["value"], precision)]
    ELSE value

round_entry(entry, precision) ==
    [entry EXCEPT !.metrics = [key \in DOMAIN entry.metrics |-> round_metric(entry.metrics[key], precision)]]

\* RoundConversion(precision).convert(data): [raised, entries]
round_convert(d, precision) ==
    IF \E i \in DOMAIN d : \E key \in DOMAIN d[i].metrics : "value" \notin DOMAIN d[i].metrics[key]
    THEN [raised |-> TRUE, entries |-> <<>>]
    ELSE [raised |-> FALSE, entries |-> [i \in DOMAIN d |-> round_entry(d[i], precision)]]

AggregationParams(sl, prune_mode, strategy) ==
    [filters |-> <<>>, slices |-> sl, prune_mode |-> prune_mode, categorize_metadata |-> FALSE,
     absent_metrics_strategy |-> strategy, round |-> TRUE, round_precision |-> 2]

\* the conversions of the chain after AggregateConversion
PrunedBy(d, prune_mode) ==
    IF prune_mode = PruneAll THEN prune_convert(d, TRUE)
    ELSE IF prune_mode = PruneColumn THEN prune_convert(d, FALSE)
    ELSE d

RoundedBy(d, p) == IF p.round THEN round_convert(d, p.round_precision) ELSE [raised |-> FALSE, entries |-> d]

AfterAggregate(aggregated, p) ==
    IF aggregated.raised THEN aggregated
    ELSE RoundedBy(PrunedBy(sort_by_field(aggregated.entries, <<"time_end_utc", "max_value">>),
                            p.prune_mode), p)

\* create_aggregation(params).convert(entries): [raised, entries]
create_aggregation(d, p) ==
    AfterAggregate(convert(sort_by_timestamp(IF p.categorize_metadata THEN categorize(d) ELSE d),
                           p.slices, p.absent_metrics_strategy), p)

\* The field names of the model and the names of their subfields.
FieldPaths ==
    {<<f>> : f \in {"agent", "time_end_utc", "x"}} \cup
    {<<f, sub>> : f \in {"time_end_utc", "x"}, sub \in {"max_value", "min_value", "n_samples"}}

non_subfields == {"value", "category", "prune", "description"}

\* The keys of the leaves add_leaf gets from the entries, and the subfields
\* it finds under a key.
LeafKeys(entries, part) ==
    UNION {DOMAIN entries[i][part] : i \in DOMAIN entries} \ {files}

LeafSubfields(entries, part, k) ==
    UNION {IF k \in DOMAIN entries[i][part] /\ IsDict(entries[i][part][k])
           THEN DOMAIN entries[i][part][k] \ non_subfields
           ELSE {} : i \in DOMAIN entries}

\* the ids S in the order of sorted()
SortedIds(S) ==
    [k \in 1..Cardinality(S) |->
        CHOOSE id \in S : Cardinality({o \in S : IdRank(o) < IdRank(id)}) = k - 1]

LeafId(part, k) == "/" \o part \o "/" \o FieldStr(k)

\* create_column_tree(entries), for field names without "/": the root holds
\* the categories /metadata/ and /metrics/ that have leaves, a category its
\* leaves in the order of their ids, a leaf its subfields in the order of
\* their names.
CategoryLeaves(entries, part) == SortedIds({LeafId(part, k) : k \in LeafKeys(entries, part)})

TreeNodes(entries) ==
    {"/"} \cup
    UNION {IF LeafKeys(entries, part) = {} THEN {}
           ELSE {"/" \o part \o "/"} \cup
                {LeafId(part, k) : k \in LeafKeys(entries, part)} \cup
                UNION {{LeafId(part, k) \o "/" \o sub : sub \in LeafSubfields(entries, part, k)} :
                          k \in LeafKeys(entries, part)}
           : part \in {"metadata", "metrics"}}

create_column_tree(entries) ==
    [column_node_id \in TreeNodes(entries) |->
        CASE column_node_id = "/" ->
                 ColumnNode(SelectSeq(<<"/metadata/", "/metrics/">>,
                                      LAMBDA c : c \in TreeNodes(entries)))
          [] column_node_id = "/metadata/" -> ColumnNode(CategoryLeaves(entries, "metadata"))
          [] column_node_id = "/metrics/" -> ColumnNode(CategoryLeaves(entries, "metrics"))
          [] OTHER ->
                 ColumnNode(SortedIds({sub \in TreeNodes(entries) :
                     \E part \in {"metadata", "metrics"} :
                         \E k \in LeafKeys(entries, part) :
                             /\ column_node_id = LeafId(part, k)
                             /\ \E name \in LeafSubfields(entries, part, k) :
                                    sub = LeafId(part, k) \o "/" \o name}))]

\* The display name of a column: its id without the prefix "/metadata/" or
\* "/metrics/", as the field name it stands for.
ColumnField(column_node_id) ==
    CHOOSE f \in FieldPaths :
        column_node_id \in {LeafId("metadata", f), LeafId("metrics", f)}

\* collect_selected_leaves(node) of get_selection
RECURSIVE collect_selected_leaves(_, _)
RECURSIVE CollectChildren(_, _)
CollectChildren(tree, children) ==
    IF children = <<>> THEN <<>>
    ELSE collect_selected_leaves(tree, Head(children)) \o CollectChildren(tree, Tail(children))

collect_selected_leaves(tree, node) ==
    IF tree[node].selection_state = NONE THEN <<>>
    ELSE (IF is_leaf(node) /\ tree[node].selection_state = ALL
          THEN <<[column_id |-> node, name |-> FieldStr(ColumnField(node)), unit |-> "none"]>>
          ELSE <<>>)
         \o CollectChildren(tree, tree[node].children)

\* root.get_selection()
get_selection(tree) == collect_selected_leaves(tree, "/")

TIMESTAMP == "timestamp"
NUMERICAL == "numerical"
STRING_UNIT == "string"

\* the metadata field determine_column_unit looks at for key
UnitField(metadata, key) ==
    IF /\ Get(metadata, key) = None
       /\ Len(key) > 1
       /\ IsDict(Get(metadata, Front(key)))
       /\ Last(key) \in {"min_value", "max_value"}
    THEN Get(metadata, Front(key))
    ELSE Get(metadata, key)

UnitOfValue(v) == IF IsNumeric(v) THEN NUMERICAL ELSE STRING_UNIT

\* determine_column_unit(key, entries), from entry i on
RECURSIVE determine_column_unit(_, _, _)
determine_column_unit(key, entries, i) ==
    IF i > Len(entries) THEN STRING_UNIT
    ELSE IF /\ IsDict(UnitField(entries[i].metadata, key))
            /\ Get(UnitField(entries[i].metadata, key), "category") = Str("timestamp")
    THEN TIMESTAMP
    ELSE IF core_entry_fetch_value(entries[i], key) # None
    THEN UnitOfValue(core_entry_fetch_value(entries[i], key))
    ELSE determine_column_unit(key, entries, i + 1)

\* the field a column name stands for
FieldOfName(name) == CHOOSE f \in FieldPaths : FieldStr(f) = name

\* The cell of the row names: the group fields of the entry as values, all
\* its metadata as details.
KeyCell(entry) ==
    TableCell([k \in {k \in DOMAIN entry.metadata :
                         /\ IsDict(entry.metadata[k])
                         /\ Get(entry.metadata[k], "category") = Str("group")} |->
                  entry.metadata[k]],
              entry.metadata)

CellOf(v, name) ==
    IF v = None THEN TableCell(<<>>, <<>>)
    ELSE IF ~IsDict(v) THEN TableCell(("value" :> v), ("value" :> v))
    ELSE TableCell([k \in {"value", "min_value", "max_value"} |-> Get(v, k)],
                   DictSet(v, "name", Str(name)))

\* v of the loop over columns in create_table
ColumnData(entry, key) ==
    IF Get(entry.metadata, key) # None THEN Get(entry.metadata, key)
    ELSE IF Get(entry.metrics, key) # None THEN Get(entry.metrics, key)
    ELSE core_entry_fetch_value(entry, key)

EntryRow(entry, columns) ==
    <<KeyCell(entry)>> \o
    [c \in DOMAIN columns |-> CellOf(ColumnData(entry, FieldOfName(columns[c].name)), columns[c].name)]

Headers(columns) ==
    <<TableCell(<<>>, <<>>)>> \o
    [c \in DOMAIN columns |->
        TableCell(("value" :> Str(columns[c].name)),
                  ("name" :> Str(columns[c].name)) @@ ("description" :> None))]

\* remove_subfields(fields, subfields_to_remove)
remove_subfields(fields, subfields_to_remove) ==
    [k \in DOMAIN fields |->
        IF IsDict(fields[k])
        THEN [x \in DOMAIN fields[k] \ subfields_to_remove |-> fields[k][x]]
        ELSE fields[k]]

\* flatten_values(fields)
flatten_values(fields) ==
    [k \in DOMAIN fields |->
        IF IsDict(fields[k]) /\ DOMAIN fields[k] = {"value"} THEN fields[k]["value"] ELSE fields[k]]

\* cell.remove_subfields(["prune", "category"]) and cell.flatten_values()
FinishedCell(cell) ==
    TableCell(flatten_values(remove_subfields(cell.values, {"prune", "category"})),
              flatten_values(remove_subfields(cell.details, {"prune", "category"})))

FinishedRows(rows) ==
    [r \in DOMAIN rows |-> [c \in DOMAIN rows[r] |-> FinishedCell(rows[r][c])]]

NoSortBy == <<>>

TableCreationParams(sl, column_selections, sort_by, prune_mode) ==
    [filters |-> <<>>, slices |-> sl, column_selections |-> column_selections, sort_by |-> sort_by,
     prune_mode |-> prune_mode, absent_metrics_strategy |-> ALL_OR_NOTHING,
     slices_recommendation_strategy |-> "none"]

\* parse_condition_list(condition_list)
RECURSIVE parse_condition_list(_)
parse_condition_list(condition_list) ==
    IF condition_list = <<>> THEN <<>>
    ELSE parse_conditions(Head(condition_list)) \o parse_condition_list(Tail(condition_list))

\* the text of a sequence of characters
RECURSIVE TextOf(_)
TextOf(chars) == IF chars = <<>> THEN "" ELSE Head(chars) \o TextOf(Tail(chars))

\* The slice conditions as AggregateConversion works with them; the field
\* names of the model hold no "/".
SliceConditionsOf(conditions) ==
    [i \in DOMAIN conditions |-> cli_slice_condition(<<TextOf(conditions[i].field_name)>>)]

\* table.sort_rows inside try / except Exception: pass
SortedTable(t, sort_by) ==
    IF sort_by = NoSortBy THEN t ELSE sort_rows(t, sort_by[1], sort_by[2]).table

ColumnsWithUnits(selection, aggr_entries) ==
    [c \in DOMAIN selection |->
        [selection[c] EXCEPT
            !.unit = determine_column_unit(FieldOfName(selection[c].name), aggr_entries, 1)]]

ColumnsOf(tree, aggr_entries) == ColumnsWithUnits(get_selection(tree), aggr_entries)

RowsOf(aggr_entries, columns) ==
    <<Headers(columns)>> \o [i \in DOMAIN aggr_entries |-> EntryRow(aggr_entries[i], columns)]

TableOf(aggr_entries, columns, sort_by) ==
    [SortedTable(Table(RowsOf(aggr_entries, columns), columns), sort_by) EXCEPT
        !.rows = FinishedRows(@)]

\* create_table from the column tree on: [raised, table, column_tree]
TableFrom(aggregation, tree, p) ==
    IF aggregation.raised THEN [raised |-> TRUE, table |-> <<>>, column_tree |-> <<>>]
    ELSE [raised |-> FALSE,
          table |-> TableOf(aggregation.entries, ColumnsOf(tree, aggregation.entries), p.sort_by),
          column_tree |-> tree]

SelectedTree(aggregation, p) ==
    IF aggregation.raised THEN <<>>
    ELSE add_selection(create_column_tree(aggregation.entries), p.column_selections)

CreatedTable(aggregation, p) == TableFrom(aggregation, SelectedTree(aggregation, p), p)

\* create_table(entries, params): [raised, table, column_tree]
create_table(entries, p) ==
    CreatedTable(create_aggregation(sort_by_timestamp(categorize(entries)),
                     AggregationParams(SliceConditionsOf(parse_condition_list(p.slices)),
                                       p.prune_mode, p.absent_metrics_strategy)),
                 p)

\* The fields of the first entry of a group whose dict _aggregate_metadata
\* stores in the aggregated entry: metadata[field_name] = first_value
IsShared(metadata, data_list, f) ==
    f # files /\ IsDict(metadata[f]) /\ SameInAll(data_list, f)

\* The metadata of the first entry of a group after _aggregate_metadata
\* returned aggregated: a dict it shares with the aggregated entry has been
\* updated (v.update).
UpdatedMetadataOf(metadata, data_list, aggregated) ==
    [f \in DOMAIN metadata |->
        IF IsShared(metadata, data_list, f) THEN aggregated[f] ELSE metadata[f]]

UpdatedMetadata(metadata, data_list) ==
    UpdatedMetadataOf(metadata, data_list, aggregate_metadata(data_list).metadata)

\* The same after the table is built: the row name cell holds the shared
\* dicts as details, and Table.remove_subfields pops from them.
SharedMetadataOf(metadata, data_list, aggregated) ==
    [f \in DOMAIN metadata |->
        IF IsShared(metadata, data_list, f)
        THEN [x \in DOMAIN aggregated[f] \ {"prune", "category"} |-> aggregated[f][x]]
        ELSE metadata[f]]

SharedMetadata(metadata, data_list) ==
    SharedMetadataOf(metadata, data_list, aggregate_metadata(data_list).metadata)

MetadataOfGroup(sorted, group) == [j \in DOMAIN group.entries |-> sorted[group.entries[j]].metadata]

MetricsOfGroup(sorted, group) == [j \in DOMAIN group.entries |-> sorted[group.entries[j]].metrics]

\* The first of the groups that raised, or Len(raised) + 1
FirstRaised(raised) ==
    IF \E g \in DOMAIN raised : raised[g]
    THEN CHOOSE g \in DOMAIN raised : raised[g] /\ \A h \in 1..(g - 1) : ~raised[h]
    ELSE Len(raised) + 1

\* The group at which AggregateConversion.convert raises; the names and the
\* metadata of the model's entries never make it raise, their metrics can.
RaisingGroup(sorted, groups, strategy) ==
    FirstRaised([g \in DOMAIN groups |->
                    aggregate_metrics_raises(MetricsOfGroup(sorted, groups[g]), strategy)])

\* The entry at place k of the sorted entries after create_table, which
\* raised at group r of the aggregation (r > Len(groups): it returned)
EntryAfterTable(sorted, groups, r, k) ==
    IF \E g \in DOMAIN groups : groups[g].entries[1] = k
    THEN LET g == CHOOSE g \in DOMAIN groups : groups[g].entries[1] = k
         IN  IF r > Len(groups)
             THEN [sorted[k] EXCEPT !.metadata = SharedMetadata(@, MetadataOfGroup(sorted, groups[g]))]
             ELSE IF g <= r
             THEN [sorted[k] EXCEPT !.metadata = UpdatedMetadata(@, MetadataOfGroup(sorted, groups[g]))]
             ELSE sorted[k]
    ELSE sorted[k]

EntriesAfterGroups(sorted, groups, r) ==
    [k \in DOMAIN sorted |-> EntryAfterTable(sorted, groups, r, k)]

SortedAfterGroups(sorted, groups, strategy) ==
    EntriesAfterGroups(sorted, groups, RaisingGroup(sorted, groups, strategy))

SortedAfterTable(sorted, p) ==
    SortedAfterGroups(sorted, Groups(sorted, SliceConditionsOf(parse_condition_list(p.slices))),
                      p.absent_metrics_strategy)

InPlaceAfterTable(categorized, p) ==
    CategorizedInPlace(categorized, SortedAfterTable(sort_by_timestamp(categorized), p))

\* The caller's entries after create_table(entries, params)
EntriesAfterTable(entries, p) == InPlaceAfterTable(categorize(entries), p)

----------------------------------------------------------------------------
(* The inputs and the operation of the table creation model. *)

TableMetrics ==
    {<<>>, (MetricX :> ("value" :> Num(2))),
     (MetricX :> (("value" :> Num(1)) @@ ("prune" :> Bool(TRUE))))}

TableEntries ==
    {Entry((time_end_utc :> Str(TimeTexts[t])) @@ (agent :> Str(a)), ms) :
        t \in {1, 2}, a \in {"a", "b"}, ms \in TableMetrics}

SortByChoices ==
    {NoSortBy, <<"/metrics/x", DESC>>, <<"/metrics/z", ASC>>, <<"/metadata/time_end_utc", ASC>>}

TableParams ==
    {TableCreationParams(sl, <<"/metadata/agent", "/metrics/x">>, sort_by, prune_mode) :
        sl \in {<<>>, <<<<"a", "g", "e", "n", "t">>>>},
        sort_by \in SortByChoices,
        prune_mode \in {PruneNone, PruneColumn}}

InitCreateTable ==
    /\ heap = <<>>
    /\ cache = <<>>
    /\ callers = <<>>
    /\ data \in BoundedSeq(TableEntries, MaxLogs)
    /\ params \in TableParams
    /\ slices = <<>>
    /\ absent_metrics_strategy = ALL_OR_NOTHING
    /\ conditions_str = <<>>
    /\ op = "init"
    /\ arg = <<>>
    /\ out = <<>>
    /\ prune_all_entries = TRUE
    /\ column_tree = <<>>
    /\ table = <<>>

\* table = create_table(data, params)
CreateTable ==
    \E r \in {create_table(data, params)} :
        /\ op' = "create_table"
        /\ arg' = data
        /\ out' = [raised |-> r.raised]
        /\ table' = r.table
        /\ column_tree' = r.column_tree
        /\ data' = EntriesAfterTable(data, params)
        /\ UNCHANGED <<slices, absent_metrics_strategy, conditions_str, prune_all_entries, params, heap, cache, callers>>

NextCreateTable == CreateTable

SpecCreateTable == InitCreateTable /\ [][NextCreateTable]_vars

\* Entries with a metadata field x next to the metric x.
SharedNameEntries ==
    {Entry((time_end_utc :> Str(TimeTexts[t])) @@ md, ms) :
        t \in {1, 2},
        md \in {<<>>, (MetricX :> Str("a")), (MetricX :> Str("b"))},
        ms \in {<<>>, (MetricX :> ("value" :> Num(2)))}}

InitSharedName ==
    /\ heap = <<>>
    /\ cache = <<>>
    /\ callers = <<>>
    /\ data \in BoundedSeq(SharedNameEntries, MaxLogs)
    /\ params \in {TableCreationParams(<<>>, <<"/metadata/x", "/metrics/x">>, NoSortBy, prune_mode) :
                      prune_mode \in {PruneNone, PruneColumn}}
    /\ slices = <<>>
    /\ absent_metrics_strategy = ALL_OR_NOTHING
    /\ conditions_str = <<>>
    /\ op = "init"
    /\ arg = <<>>
    /\ out = <<>>
    /\ prune_all_entries = TRUE
    /\ column_tree = <<>>
    /\ table = <<>>

SpecSharedName == InitSharedName /\ [][NextCreateTable]_vars

----------------------------------------------------------------------------
(* create_logs_list of transform_utils.py, with the effect it has on the  *)
(* entries it was handed.                                                  *)

ListLogsCreationParams(groups, prune_mode) ==
    [filters |-> <<>>, groups |-> groups, prune_mode |-> prune_mode,
     groups_recommendation_strategy |-> "none", round_precision |-> 2]

\* the conversions of aggregation_conversion after AggregateConversion
AggregatedGroupOf(aggregated, p) ==
    IF aggregated.raised THEN aggregated
    ELSE round_convert(PrunedBy(aggregated.entries, p.prune_mode), p.round_precision)

\* aggregation_conversion.convert(group_entries): [raised, entries]
AggregatedGroup(group_entries, p) ==
    AggregatedGroupOf(convert(group_entries, <<>>, ALL_OR_NOTHING), p)

\* entry.remove_subfields(["prune", "category"]) and entry.flatten_values()
FinishedEntry(entry) ==
    [entry EXCEPT
        !.metadata = flatten_values(remove_subfields(@, {"prune", "category"})),
        !.metrics = flatten_values(remove_subfields(@, {"prune", "category"}))]

\* prune_conversion.convert(group_entries): [raised, entries]
PrunedMembers(group_entries, p) ==
    IF p.prune_mode = PruneNone THEN [raised |-> FALSE, entries |-> group_entries]
    ELSE prune_result(group_entries, p.prune_mode = PruneAll)

\* The entries of a group after the step of the loop over the groups: the
\* first one shares its metadata dicts with the aggregated entry.
LoopMembers(members, group_entries) ==
    [j \in DOMAIN members |->
        [members[j] EXCEPT
            !.metadata =
                IF j = 1
                THEN UpdatedMetadata(@, [i \in DOMAIN group_entries |-> group_entries[i].metadata])
                ELSE @]]

\* One step of the loop over the groups, from what its conversions gave:
\* whether it raised, the aggregated entry, and the entries of the group as
\* it leaves them (pruned unless the aggregation raised).
GroupStepOf(aggregated, pruned, group_entries) ==
    [raised |-> aggregated.raised \/ pruned.raised,
     aggr_entry |-> IF aggregated.raised THEN <<>> ELSE aggregated.entries[1],
     entries |-> LoopMembers(IF aggregated.raised THEN group_entries ELSE pruned.entries,
                             group_entries)]

GroupStep(group_entries, p) ==
    GroupStepOf(AggregatedGroup(group_entries, p), PrunedMembers(group_entries, p), group_entries)

GroupedCanonicalMetrics(aggr_entry, entries) == [aggr_entry |-> aggr_entry, entries |-> entries]

\* get_sort_key of create_logs_list
LogsKeyOf(timestamp) == IF TruthyData(timestamp) THEN timestamp ELSE Str("")

logs_get_sort_key(aggr_entry) ==
    LogsKeyOf(core_entry_fetch_value(aggr_entry, <<"time_end_utc", "max_value">>))

\* The place of group i in sorted(grouped_entries, key=get_sort_key, reverse=True)
GroupPlace(keys, i) ==
    1 + Cardinality({j \in DOMAIN keys : PyLess(keys[i], keys[j]) \/ (keys[j] = keys[i] /\ j < i)})

SortedGroups(grouped, keys) ==
    [k \in DOMAIN grouped |-> grouped[CHOOSE i \in DOMAIN grouped : GroupPlace(keys, i) = k]]

EntriesOfGroup(sorted, group) == [j \in DOMAIN group.entries |-> sorted[group.entries[j]]]

GroupSteps(sorted, groups, p) ==
    [g \in DOMAIN groups |-> GroupStep(EntriesOfGroup(sorted, groups[g]), p)]

FinishedEntries(entries) == [j \in DOMAIN entries |-> FinishedEntry(entries[j])]

\* What create_logs_list returns, from the steps of its loop over the groups
GroupedList(steps) ==
    IF \E g \in DOMAIN steps : steps[g].raised
    THEN [raised |-> TRUE, groups |-> <<>>, group_recommendations |-> <<>>]
    ELSE [raised |-> FALSE,
          groups |->
              SortedGroups(
                  [g \in DOMAIN steps |->
                      GroupedCanonicalMetrics(FinishedEntry(steps[g].aggr_entry),
                                              FinishedEntries(steps[g].entries))],
                  [g \in DOMAIN steps |-> logs_get_sort_key(steps[g].aggr_entry)]),
          group_recommendations |-> <<>>]

GroupOfPlace(groups, k) ==
    CHOOSE g \in DOMAIN groups : \E j \in DOMAIN groups[g].entries : groups[g].entries[j] = k

IndexInGroup(group, k) == CHOOSE j \in DOMAIN group.entries : group.entries[j] = k

\* The entry at place k of the sorted entries, a member of group g, after
\* create_logs_list, which raised at group r (r > Len(groups): it returned)
EntryAfterLogs(sorted, groups, steps, r, g, k) ==
    IF r > Len(groups) THEN FinishedEntry(steps[g].entries[IndexInGroup(groups[g], k)])
    ELSE IF g <= r THEN steps[g].entries[IndexInGroup(groups[g], k)]
    ELSE sorted[k]

EntriesAfterSteps(sorted, groups, steps, r) ==
    [k \in DOMAIN sorted |-> EntryAfterLogs(sorted, groups, steps, r, GroupOfPlace(groups, k), k)]

\* The result of create_logs_list and the sorted entries as it leaves them
LogsOfSteps(sorted, groups, steps) ==
    [out |-> GroupedList(steps),
     entries |-> EntriesAfterSteps(sorted, groups, steps,
                                   FirstRaised([g \in DOMAIN steps |-> steps[g].raised]))]

LogsOfGroups(sorted, groups, p) == LogsOfSteps(sorted, groups, GroupSteps(sorted, groups, p))

LogsOfSorted(sorted, p) ==
    LogsOfGroups(sorted, Groups(sorted, SliceConditionsOf(parse_condition_list(p.groups))), p)

LogsOfCategorized(categorized, p) ==
    [LogsOfSorted(sort_by_timestamp(categorized), p) EXCEPT
        !.entries = CategorizedInPlace(categorized, @)]

\* create_logs_list(entries, params) with its effect on entries:
\* out is [raised, groups, group_recommendations], entries the caller's
\* entries after the call.
logs_list_call(entries, p) == LogsOfCategorized(categorize(entries), p)

create_logs_list(entries, p) == logs_list_call(entries, p).out

EntriesAfterLogs(entries, p) == logs_list_call(entries, p).entries

LogsParams ==
    {ListLogsCreationParams(groups, prune_mode) :
        groups \in {<<>>, <<<<"a", "g", "e", "n", "t">>>>},
        prune_mode \in {PruneNone, PruneAll, PruneColumn}}

InitLogsList ==
    /\ heap = <<>>
    /\ cache = <<>>
    /\ callers = <<>>
    /\ data \in BoundedSeq(TableEntries, MaxLogs)
    /\ params \in LogsParams
    /\ slices = <<>>
    /\ absent_metrics_strategy = ALL_OR_NOTHING
    /\ conditions_str = <<>>
    /\ op = "init"
    /\ arg = <<>>
    /\ out = <<>>
    /\ prune_all_entries = TRUE
    /\ column_tree = <<>>
    /\ table = <<>>

\* out = create_logs_list(data, params)
CreateLogsList ==
    \E r \in {logs_list_call(data, params)} :
        /\ op' = "create_logs_list"
        /\ arg' = data
        /\ out' = r.out
        /\ data' = r.entries
        /\ UNCHANGED <<slices, absent_metrics_strategy, conditions_str, prune_all_entries, column_tree, params, table, heap, cache, callers>>

NextLogsList == CreateLogsList

SpecLogsList == InitLogsList /\ [][NextLogsList]_vars

----------------------------------------------------------------------------
(* dedupe_groups of transform_utils.py.  A group is the name of a metadata *)
(* field; the dict new_group_values is the sequence of its items.          *)

FIRST_ALPHABETICAL == "first_alphabetical"
CONCISE == "concise"

env == <<"env">>
t_version == <<"t_version">>

\* len(x) of the texts dedupe_groups measures in the model
StrLen(x) ==
    CASE x = "a" -> 1
      [] x = "b" -> 1
      [] x = "env" -> 3
      [] x = "agent" -> 5
      [] x = "t_version" -> 9

\* "_version" in group
ContainsVersion(group) == group = t_version

\* first_group_value_lengths.get(group, 0): the length of str(v) of the
\* first entry whose value v of the group is not None
FirstValueLength(entries, group) ==
    IF \E i \in DOMAIN entries : core_entry_fetch_value(entries[i], group) # None
    THEN StrLen(PyStr(core_entry_fetch_value(
             entries[CHOOSE i \in DOMAIN entries :
                        /\ core_entry_fetch_value(entries[i], group) # None
                        /\ \A j \in 1..(i - 1) : core_entry_fetch_value(entries[j], group) = None],
             group)))
    ELSE 0

\* get_sort_key(group) of dedupe_groups
concise_sort_key(entries, group) ==
    StrLen(group[1]) + (IF ContainsVersion(group) THEN 20 ELSE 0) + FirstValueLength(entries, group)

\* The place of groups[i] in sorted(groups, key=get_sort_key)
ConcisePlace(entries, groups, i) ==
    1 + Cardinality({j \in DOMAIN groups :
            \/ concise_sort_key(entries, groups[j]) < concise_sort_key(entries, groups[i])
            \/ concise_sort_key(entries, groups[j]) = concise_sort_key(entries, groups[i]) /\ j < i})

\* groups as the main loop of dedupe_groups takes them
OrderedGroups(groups, entries, strategy) ==
    IF strategy = CONCISE
    THEN [k \in DOMAIN groups |->
             groups[CHOOSE i \in DOMAIN groups : ConcisePlace(entries, groups, i) = k]]
    ELSE groups

\* get_slice_values(entry, new_group_conditions), one slice condition per
\* accepted group
GroupKey(entry, new_groups) ==
    [k \in DOMAIN new_groups |-> core_entry_fetch_value(entry, new_groups[k])]

\* new_group_values.get(key)
StoredValue(new_group_values, key) ==
    IF \E k \in DOMAIN new_group_values : KeyEq(new_group_values[k][1], key)
    THEN new_group_values[CHOOSE k \in DOMAIN new_group_values :
                              KeyEq(new_group_values[k][1], key)][2]
    ELSE None

\* new_group_values[key] = v
StoreValue(new_group_values, key, v) ==
    IF \E k \in DOMAIN new_group_values : KeyEq(new_group_values[k][1], key)
    THEN [k \in DOMAIN new_group_values |->
             IF KeyEq(new_group_values[k][1], key) THEN <<new_group_values[k][1], v>>
             ELSE new_group_values[k]]
    ELSE Append(new_group_values, <<key, v>>)

\* The loop over the entries for one candidate group, from entry i on
RECURSIVE DedupeScan(_, _, _, _, _)
DedupeScan(entries, group, i, new_groups, new_group_values) ==
    IF i > Len(entries) THEN new_groups
    ELSE IF StoredValue(new_group_values, GroupKey(entries[i], new_groups)) = None
    THEN DedupeScan(entries, group, i + 1, new_groups,
             StoreValue(new_group_values, GroupKey(entries[i], new_groups),
                        core_entry_fetch_value(entries[i], group)))
    ELSE IF PyEq(StoredValue(new_group_values, GroupKey(entries[i], new_groups)),
                 core_entry_fetch_value(entries[i], group))
    THEN DedupeScan(entries, group, i + 1, new_groups, new_group_values)
    ELSE DedupeScan(entries, group, i + 1, Append(new_groups, group), new_group_values)

\* The loop over groups[1:], from candidate k on
RECURSIVE DedupeLoop(_, _, _, _)
DedupeLoop(groups, entries, k, new_groups) ==
    IF k > Len(groups) THEN new_groups
    ELSE DedupeLoop(groups, entries, k + 1, DedupeScan(entries, groups[k], 1, new_groups, <<>>))

DedupedFrom(ordered, entries) == DedupeLoop(ordered, entries, 2, <<ordered[1]>>)

\* dedupe_groups(groups, entries, groups_recommendation_strategy)
dedupe_groups(groups, entries, strategy) ==
    IF groups = <<>> THEN <<>>
    ELSE DedupedFrom(OrderedGroups(groups, entries, strategy), entries)

\* Entries whose fields agent and env are absent, "a" or "b", and whose field
\* t_version is absent or "a"
FieldChoices(f, values) == {<<>>} \cup {(f :> Str(v)) : v \in values}

DedupeEntries ==
    {Entry(x @@ y @@ z, <<>>) :
        x \in FieldChoices(agent, {"a", "b"}),
        y \in FieldChoices(env, {"a", "b"}),
        z \in FieldChoices(t_version, {"a"})}

\* Candidate lists in alphabetical order
CandidateLists ==
    {<<>>, <<agent>>, <<env>>, <<t_version>>, <<agent, env>>, <<agent, t_version>>,
     <<env, t_version>>, <<agent, env, t_version>>}

InitDedupe ==
    /\ data \in BoundedSeq(DedupeEntries, MaxEntries)
    /\ params \in [groups : CandidateLists,
                    groups_recommendation_strategy : {FIRST_ALPHABETICAL, CONCISE}]
    /\ heap = <<>>
    /\ cache = <<>>
    /\ callers = <<>>
    /\ slices = <<>>
    /\ absent_metrics_strategy = ALL_OR_NOTHING
    /\ conditions_str = <<>>
    /\ prune_all_entries = TRUE
    /\ column_tree = <<>>
    /\ table = <<>>
    /\ op = "init"
    /\ arg = <<>>
    /\ out = <<>>

\* dedupe_groups(params.groups, data, params.groups_recommendation_strategy);
\* arg keeps the candidates in the order the main loop takes them.
DedupeGroups ==
    /\ op' = "dedupe_groups"
    /\ arg' = OrderedGroups(params.groups, data, params.groups_recommendation_strategy)
    /\ out' = dedupe_groups(params.groups, data, params.groups_recommendation_strategy)
    /\ UNCHANGED <<data, slices, absent_metrics_strategy, conditions_str, prune_all_entries, column_tree, params, table, heap, cache, callers>>

NextDedupe == DedupeGroups

SpecDedupe == InitDedupe /\ [][NextDedupe]_vars

\* Two entries agree on the accepted groups and differ in the candidate; an
\* absent field is a value of its own.
Distinguishes(entries, accepted, group) ==
    \E i, j \in DOMAIN entries :
        /\ \A k \in DOMAIN accepted :
               core_entry_fetch_value(entries[i], accepted[k])
                   = core_entry_fetch_value(entries[j], accepted[k])
        /\ core_entry_fetch_value(entries[i], group) # core_entry_fetch_value(entries[j], group)

\* The groups accepted from candidate k on, as the claim describes them
RECURSIVE AcceptedFrom(_, _, _, _)
AcceptedFrom(ordered, entries, k, accepted) ==
    IF k > Len(ordered) THEN accepted
    ELSE AcceptedFrom(ordered, entries, k + 1,
             IF Distinguishes(entries, accepted, ordered[k])
             THEN Append(accepted, ordered[k]) ELSE accepted)

\* C24: dedupe_groups accepts the first candidate, and each later candidate
\* iff two entries agree on all candidates accepted before it and differ in
\* this one, an absent field counting as a value of its own; the result has
\* no duplicates and holds candidates only.
C24_AcceptedIffDistinguishes ==
    (op = "dedupe_groups" /\ arg # <<>>) =>
        /\ out = AcceptedFrom(arg, data, 2, <<arg[1]>>)
        /\ \A i, j \in DOMAIN out : out[i] = out[j] => i = j
        /\ \A i \in DOMAIN out : \E k \in DOMAIN arg : arg[k] = out[i]

----------------------------------------------------------------------------
(* Claims on create_table. *)

\* the sort request names one of the columns of the table
SortColumnSelected ==
    \E c \in DOMAIN table.columns : table.columns[c].column_id = params.sort_by[1]

\* C18: building a table with a sort specification whose column id matches
\* none of the selected columns fails the call: whenever create_table returns
\* a table for a sort request, the requested column is one of its columns.
C18_UnknownSortColumnFails ==
    (op = "create_table" /\ params.sort_by # NoSortBy /\ ~out.raised) => SortColumnSelected

----------------------------------------------------------------------------
(* The chain of create_aggregation on entries whose metric is a fraction. *)

\* The float 0.125
OneEighth == FloatDiv(ToFloat(Num(1)), 8)

\* The entry at place k of the sorted entries after the chain, whose
\* AggregateConversion raised at group r (r > Len(groups): it returned)
EntryAfterAggregation(sorted, groups, r, k) ==
    IF \E g \in DOMAIN groups : groups[g].entries[1] = k /\ g <= r
    THEN [sorted[k] EXCEPT !.metadata =
             UpdatedMetadata(@, MetadataOfGroup(sorted,
                 groups[CHOOSE g \in DOMAIN groups : groups[g].entries[1] = k]))]
    ELSE sorted[k]

SortedAfterAggregation(sorted, groups, r) ==
    [k \in DOMAIN sorted |-> EntryAfterAggregation(sorted, groups, r, k)]

\* The caller's entries after create_aggregation(params).convert(entries)
EntriesAfterAggregation(entries, categorized, sorted, p) ==
    CategorizedInPlace(categorized,
        SortedAfterAggregation(sorted, Groups(sorted, p.slices),
            RaisingGroup(sorted, Groups(sorted, p.slices), p.absent_metrics_strategy)))

\* Entries of two agents whose metric x is missing, an integer, 0.125, or
\* 0.125 flagged for pruning
RoundedMetrics ==
    {<<>>} \cup
    {(MetricX :> ("value" :> v)) : v \in {Num(1), Num(2), OneEighth}} \cup
    {(MetricX :> [value |-> OneEighth, prune |-> Bool(TRUE)])}

RoundedEntries ==
    {Entry((agent :> Str(a)), ms) : a \in {"a", "b"}, ms \in RoundedMetrics}

ChainParams ==
    {AggregationParams(sl, prune_mode, strategy) :
        sl \in {<<>>, <<cli_slice_condition(agent)>>},
        prune_mode \in {PruneNone, PruneAll, PruneColumn},
        strategy \in Strategies}

InitAggregation ==
    /\ data \in BoundedSeq(RoundedEntries, MaxLogs)
    /\ params \in ChainParams
    /\ heap = <<>>
    /\ cache = <<>>
    /\ callers = <<>>
    /\ slices = <<>>
    /\ absent_metrics_strategy = ALL_OR_NOTHING
    /\ conditions_str = <<>>
    /\ prune_all_entries = TRUE
    /\ column_tree = <<>>
    /\ table = <<>>
    /\ op = "init"
    /\ arg = <<>>
    /\ out = <<>>

\* create_aggregation(params).convert(data)
CreateAggregation ==
    /\ op' = "create_aggregation"
    /\ arg' = data
    /\ out' = create_aggregation(data, params)
    /\ \E c \in {IF params.categorize_metadata THEN categorize(data) ELSE data} :
           data' = EntriesAfterAggregation(data, c, sort_by_timestamp(c), params)
    /\ UNCHANGED <<slices, absent_metrics_strategy, conditions_str, prune_all_entries, column_tree, params, table, heap, cache, callers>>

NextAggregation == CreateAggregation

SpecAggregation == InitAggregation /\ [][NextAggregation]_vars

\* C23: every metric of every entry the chain of create_aggregation returns
\* with rounding enabled has min_value <= value <= max_value: rounding the
\* value does not move it outside the recorded extrema.
C23_RoundedValueWithinExtrema ==
    (op = "create_aggregation" /\ params.round /\ ~out.raised) =>
        \A i \in DOMAIN out.entries : \A key \in DOMAIN out.entries[i].metrics :
            /\ PyLeq(out.entries[i].metrics[key]["min_value"], out.entries[i].metrics[key]["value"])
            /\ PyLeq(out.entries[i].metrics[key]["value"], out.entries[i].metrics[key]["max_value"])

----------------------------------------------------------------------------
(* MetricsCache of metrics_service/cache.py, the callers that load the    *)
(* entries from it, and the engine operations they run on what they got.  *)
(* An entry is an object on the heap; a list of entries is the sequence   *)
(* of their object ids.  data is what the metrics directory holds.        *)

MaxReloads == 2

MaxCached == 1

Callers == {1, 2}

MetricsPaths == {"logs", "logs2"}

\* MetricsCache.__init__: _entries = None, _metrics_path = None
MetricsCache == [entries |-> <<>>, entries_is_none |-> TRUE, metrics_path |-> "None"]

\* A caller that has not loaded the entries yet
NoList == [loaded |-> FALSE, entries |-> <<>>]

\* the condition of load_entries for reading the disk
NeedsReload(metrics_path, force_reload) ==
    cache.entries_is_none \/ force_reload \/ cache.metrics_path # metrics_path

\* load_logs_list_from_disk(metrics_path): a fresh object for each entry of
\* the directory, and the list of these objects
HeapWithLoaded(h, entries) == h \o entries

LoadedIds(h, entries) == [i \in DOMAIN entries |-> Len(h) + i]

\* The entries of a list of object ids
EntriesOf(h, ids) == [i \in DOMAIN ids |-> h[ids[i]]]

\* The heap after the entries of the list ids were left as the list after
WrittenBack(h, ids, after) ==
    [id \in DOMAIN h |->
        IF \E i \in DOMAIN ids : ids[i] = id
        THEN after[CHOOSE i \in DOMAIN ids : ids[i] = id]
        ELSE h[id]]

\* Entries of one agent with a metric, flagged for pruning or not
CacheEntries ==
    {Entry((time_end_utc :> Str(TimeTexts[t])) @@ (agent :> Str("a")), ms) :
        t \in {1}, ms \in TableMetrics \ {<<>>}}

CacheTableParams ==
    {TableCreationParams(<<>>, <<"/metadata/agent", "/metrics/x">>, NoSortBy, PruneColumn)}

CacheLogsParams == {ListLogsCreationParams(<<>>, PruneAll)}

InitCache ==
    /\ data \in BoundedSeq(CacheEntries, MaxCached)
    /\ heap = <<>>
    /\ cache = MetricsCache
    /\ callers = [c \in Callers |-> NoList]
    /\ params = <<>>
    /\ slices = <<>>
    /\ absent_metrics_strategy = ALL_OR_NOTHING
    /\ conditions_str = <<>>
    /\ op = "init"
    /\ arg = <<>>
    /\ out = <<>>
    /\ prune_all_entries = TRUE
    /\ column_tree = <<>>
    /\ table = <<>>

\* What load_entries leaves and returns: h is the heap, ids self._entries
Loaded(c, metrics_path, force_reload, h, ids) ==
    /\ heap' = h
    /\ cache' = [entries |-> ids, entries_is_none |-> FALSE, metrics_path |-> metrics_path]
    /\ callers' = [callers EXCEPT ![c] = [loaded |-> TRUE, entries |-> ids]]
    /\ op' = "load_entries"
    /\ arg' = <<c, metrics_path, force_reload>>
    /\ out' = EntriesOf(h, ids)

\* Caller c runs metrics_cache.load_entries(metrics_path, force_reload); the
\* whole call holds the lock.  The number of reloads is capped.
LoadEntries(c, metrics_path, force_reload) ==
    /\ NeedsReload(metrics_path, force_reload) => Len(heap) < MaxReloads * Len(data) \/ data = <<>>
    /\ IF NeedsReload(metrics_path, force_reload)
       THEN Loaded(c, metrics_path, force_reload, HeapWithLoaded(heap, data), LoadedIds(heap, data))
       ELSE Loaded(c, metrics_path, force_reload, heap, cache.entries)
    /\ UNCHANGED <<data, slices, absent_metrics_strategy, conditions_str, prune_all_entries, column_tree, params, table>>

\* The routers go on with the entries they loaded unless the list is empty.
HasEntries(c) == callers[c].loaded /\ callers[c].entries # <<>>

\* What an engine operation of caller c leaves: its result and the entries
\* of the caller's list as the operation left them
Ran(c, name, input, result, after) ==
    /\ op' = name
    /\ arg' = <<c, input>>
    /\ out' = result
    /\ heap' = WrittenBack(heap, callers[c].entries, after)
    /\ UNCHANGED <<data, slices, absent_metrics_strategy, conditions_str, prune_all_entries, params, cache, callers>>

\* Caller c runs CategorizeMetadataConversion().convert(entries)
CategorizeLoaded(c) ==
    /\ HasEntries(c)
    /\ \E r \in {categorize(EntriesOf(heap, callers[c].entries))} :
           Ran(c, "categorize", <<>>, [raised |-> FALSE], r)
    /\ UNCHANGED <<column_tree, table>>

\* Caller c runs PruneConversion(prune_all_entries=all_entries).convert(entries)
PruneLoaded(c, all_entries) ==
    /\ HasEntries(c)
    /\ \E r \in {prune_result(EntriesOf(heap, callers[c].entries), all_entries)} :
           Ran(c, "prune", all_entries, [raised |-> r.raised], r.entries)
    /\ UNCHANGED <<column_tree, table>>

\* Caller c runs create_table(entries, p)
CreateTableOfLoaded(c, p) ==
    /\ HasEntries(c)
    /\ \E r \in {create_table(EntriesOf(heap, callers[c].entries), p)} :
           /\ Ran(c, "create_table", p, [raised |-> r.raised],
                  EntriesAfterTable(EntriesOf(heap, callers[c].entries), p))
           /\ table' = r.table
           /\ column_tree' = r.column_tree

\* Caller c runs create_logs_list(entries, p)
CreateLogsListOfLoaded(c, p) ==
    /\ HasEntries(c)
    /\ \E r \in {logs_list_call(EntriesOf(heap, callers[c].entries), p)} :
           Ran(c, "create_logs_list", p, r.out, r.entries)
    /\ UNCHANGED <<column_tree, table>>

NextCache ==
    \E c \in Callers :
        \/ \E metrics_path \in MetricsPaths, force_reload \in BOOLEAN :
               LoadEntries(c, metrics_path, force_reload)
        \/ CategorizeLoaded(c)
        \/ \E all_entries \in BOOLEAN : PruneLoaded(c, all_entries)
        \/ \E p \in CacheTableParams : CreateTableOfLoaded(c, p)
        \/ \E p \in CacheLogsParams : CreateLogsListOfLoaded(c, p)

SpecCache == InitCache /\ [][NextCache]_vars

----------------------------------------------------------------------------
(* create_column_tree and find_node_by_id for field names that hold "/".   *)
(* Here a text is the sequence of its characters, a ColumnNode a record of *)
(* its id, its name and the sequence of its children, and a node of a tree *)
(* is told by its path: the positions of the children to walk from the     *)
(* root.                                                                   *)

\* The characters of the model in the order of their code points
CharOrder == <<"/", "_", "a", "c", "d", "e", "i", "l", "m", "n", "p", "r", "s", "t", "u", "v", "x">>

CharRank(c) == CHOOSE i \in DOMAIN CharOrder : CharOrder[i] = c

\* a < b of two texts
RECURSIVE TextLess(_, _)
TextLess(a, b) ==
    IF b = <<>> THEN FALSE
    ELSE IF a = <<>> THEN TRUE
    ELSE IF a[1] = b[1] THEN TextLess(Tail(a), Tail(b))
    ELSE CharRank(a[1]) < CharRank(b[1])

\* s.startswith(prefix)
StartsWith(s, prefix) == Len(prefix) <= Len(s) /\ SubSeq(s, 1, Len(prefix)) = prefix

\* The place of the first "/" in s, 0 when it holds none
SlashAt(s) == IF \E i \in DOMAIN s : s[i] = "/" THEN CHOOSE i \in DOMAIN s : s[i] = "/" /\ \A j \in 1..(i - 1) : s[j] # "/" ELSE 0

\* s.split("/")[-1]
RECURSIVE LastPart(_)
LastPart(s) == IF SlashAt(s) = 0 THEN s ELSE LastPart(SubSeq(s, SlashAt(s) + 1, Len(s)))

MetadataPrefix == <<"/", "m", "e", "t", "a", "d", "a", "t", "a", "/">>
MetricsPrefix == <<"/", "m", "e", "t", "r", "i", "c", "s", "/">>

\* The characters of the name of a subfield
SubfieldText(subfield) ==
    CASE subfield = "min_value" -> <<"m", "i", "n", "_", "v", "a", "l", "u", "e">>
      [] subfield = "max_value" -> <<"m", "a", "x", "_", "v", "a", "l", "u", "e">>
      [] subfield = "n_samples" -> <<"n", "_", "s", "a", "m", "p", "l", "e", "s">>

\* ColumnNode(column_node_id, name) with its children
NestedNode(column_node_id, name, children) ==
    [column_node_id |-> column_node_id, name |-> name, children |-> children]

\* sorted(nodes, key): the nodes S by the text key(node), which no two share
SortedNodes(S, key(_)) ==
    [k \in 1..Cardinality(S) |->
        CHOOSE n \in S : Cardinality({o \in S : TextLess(key(o), key(n))}) = k - 1]

\* leaves_subfields[key] after the loop over the entries: the names add_leaf
\* finds in the dicts stored under k
SubfieldsOf(entries, part, k) ==
    UNION {IF k \in DOMAIN entries[i][part] /\ IsDict(entries[i][part][k])
           THEN DOMAIN entries[i][part][k] \ non_subfields
           ELSE {} : i \in DOMAIN entries}

\* leaves[key] with its children: the subfields sorted by name
add_leaf(entries, part, prefix, k) ==
    NestedNode(prefix \o k, LastPart(prefix \o k),
        SortedNodes({NestedNode(prefix \o k \o <<"/">> \o SubfieldText(sub), SubfieldText(sub), <<>>) :
                        sub \in SubfieldsOf(entries, part, k)},
                    LAMBDA n : n.name))

\* leaves_list, the next leaf to pop first
leaves_list(entries) ==
    SortedNodes({add_leaf(entries, "metadata", MetadataPrefix, k) :
                    k \in UNION {DOMAIN entries[i].metadata : i \in DOMAIN entries} \ {<<"f", "i", "l", "e", "s">>}}
                \cup {add_leaf(entries, "metrics", MetricsPrefix, k) :
                    k \in UNION {DOMAIN entries[i].metrics : i \in DOMAIN entries}},
                LAMBDA n : n.column_node_id)

\* build_tree(root) for the root with the id root_id and the children it has
\* so far: [children, stack], the children of root and the leaves left
RECURSIVE build_tree(_, _, _)
BuildNode(root_id, children, stack, node_name) ==
    \* node = ColumnNode(root_id + node_name + "/"); build_tree(node)
    LET sub == build_tree(root_id \o node_name \o <<"/">>, <<>>, stack)
    IN  build_tree(root_id,
                   Append(children, NestedNode(root_id \o node_name \o <<"/">>, node_name, sub.children)),
                   sub.stack)

build_tree(root_id, children, stack) ==
    IF stack = <<>> \/ ~StartsWith(stack[1].column_node_id, root_id)
    THEN [children |-> children, stack |-> stack]
    ELSE LET leaf_name == SubSeq(stack[1].column_node_id, Len(root_id) + 1, Len(stack[1].column_node_id))
         IN  IF SlashAt(leaf_name) = 0
             THEN build_tree(root_id, Append(children, stack[1]), Tail(stack))
             ELSE BuildNode(root_id, children, stack, SubSeq(leaf_name, 1, SlashAt(leaf_name) - 1))

\* create_column_tree(entries)
create_nested_column_tree(entries) ==
    NestedNode(<<"/">>, <<"/">>, build_tree(<<"/">>, <<>>, leaves_list(entries)).children)

\* The node of the tree at a path
RECURSIVE NodeAt(_, _)
NodeAt(node, path) == IF path = <<>> THEN node ELSE NodeAt(node.children[Head(path)], Tail(path))

\* The paths of the nodes of a tree
RECURSIVE PathsOf(_)
PathsOf(node) ==
    {<<>>} \cup UNION {{<<c>> \o p : p \in PathsOf(node.children[c])} : c \in DOMAIN node.children}

NotFound == <<0>>

\* The loop of find_node_by_id over the children of self from child i on:
\* the place of the child with the id, or the candidate to search in
RECURSIVE FindChild(_, _, _, _)
FindChild(children, i, node_id, candidate) ==
    IF i > Len(children) THEN [found |-> FALSE, child |-> candidate]
    ELSE IF children[i].column_node_id = node_id THEN [found |-> TRUE, child |-> i]
    ELSE IF TextLess(children[i].column_node_id, node_id)
    THEN FindChild(children, i + 1, node_id, i)
    ELSE [found |-> FALSE, child |-> candidate]

\* self.find_node_by_id(node_id) of the node at path: the path of the node
\* returned, NotFound for None
RECURSIVE find_node_by_id_from(_, _, _)
FindFrom(tree, path, node_id, r) ==
    IF r.found THEN Append(path, r.child)
    ELSE IF r.child = 0 THEN NotFound
    ELSE find_node_by_id_from(tree, Append(path, r.child), node_id)

find_node_by_id_from(tree, path, node_id) ==
    IF NodeAt(tree, path).column_node_id = node_id THEN path
    ELSE IF Len(NodeAt(tree, path).children) = 0 THEN NotFound
    ELSE FindFrom(tree, path, node_id, FindChild(NodeAt(tree, path).children, 1, node_id, 0))

\* Metrics named a, a/x and a/min_value, each missing, plain or with the
\* subfield min_value, and the metadata field a.
KeyA == <<"a">>
KeyAX == <<"a", "/", "x">>
KeyAMin == <<"a", "/", "m", "i", "n", "_", "v", "a", "l", "u", "e">>

NestedMetrics ==
    UNION {[K -> {("value" :> Num(1)), ("value" :> Num(1)) @@ ("min_value" :> Num(1))}] :
              K \in SUBSET {KeyA, KeyAX, KeyAMin}}

NestedEntries ==
    {Entry(md, ms) : md \in {<<>>, (KeyA :> Str("b"))}, ms \in NestedMetrics}

InitNested ==
    /\ heap = <<>>
    /\ cache = <<>>
    /\ callers = <<>>
    /\ data \in BoundedSeq(NestedEntries, MaxLogs)
    /\ params = <<>>
    /\ slices = <<>>
    /\ absent_metrics_strategy = ALL_OR_NOTHING
    /\ conditions_str = <<>>
    /\ op = "init"
    /\ arg = <<>>
    /\ out = <<>>
    /\ prune_all_entries = TRUE
    /\ column_tree = <<>>
    /\ table = <<>>

\* column_tree = create_column_tree(data)
CreateColumnTree ==
    /\ op = "init"
    /\ op' = "create_column_tree"
    /\ column_tree' = create_nested_column_tree(data)
    /\ UNCHANGED <<data, slices, absent_metrics_strategy, conditions_str, arg, out, prune_all_entries, params, table, heap, cache, callers>>

\* column_tree.find_node_by_id(node_id) for the id of the node at a path
FindNodeById ==
    /\ op # "init"
    /\ \E path \in PathsOf(column_tree) :
           /\ op' = "find_node_by_id"
           /\ arg' = path
           /\ out' = find_node_by_id_from(column_tree, <<>>, NodeAt(column_tree, path).column_node_id)
    /\ UNCHANGED <<data, slices, absent_metrics_strategy, conditions_str, prune_all_entries, column_tree, params, table, heap, cache, callers>>

NextNested == CreateColumnTree \/ FindNodeById

SpecNested == InitNested /\ [][NextNested]_vars

\* C30: in every tree of create_column_tree no two nodes share an id, and
\* find_node_by_id(id) returns the node with that id for every node of the
\* tree, the subfield nodes of a leaf whose name begins other field names
\* included.
C30_EveryNodeFoundByItsId ==
    /\ op # "init" =>
           \A p, q \in PathsOf(column_tree) :
               NodeAt(column_tree, p).column_node_id = NodeAt(column_tree, q).column_node_id => p = q
    /\ op = "find_node_by_id" => out = arg

----------------------------------------------------------------------------
(* MetricsCache of metrics_service/utils/cache.py under threads.  The body *)
(* of a "with self._lock" block is one step; what a method reads outside    *)
(* the lock is one step per read.  An optional value is <<>> for None and   *)
(* <<x>> for x.  heap holds the entry lists and the AgentHostingAnalytics    *)
(* objects the loads create; data holds the settings and the clock.         *)

AGENT_HOSTING_CACHE_REFRESH_SECONDS == 15

MaxTime == 32

Threads == {1, 2}

\* settings.get_agent_hosting_config() and settings.get_metrics_path()
HostingConfig == "url,key"
SettingsPath == "logs"

\* MetricsCache.__init__
ServiceCache ==
    [entries |-> <<>>, agent_hosting_analytics |-> <<>>, metrics_path |-> <<>>,
     agent_hosting_config |-> <<>>, agent_hosting_last_loaded |-> <<>>]

\* A thread that runs no method of the cache
IdleThread == [pc |-> "idle", force_reload |-> FALSE, in_get |-> FALSE]

\* The entry lists created so far
ListsOf(h) == {i \in DOMAIN h : h[i].type = "list"}

InitService ==
    /\ data \in [now : {0}, has_agent_hosting : BOOLEAN, has_metrics_path : BOOLEAN]
    /\ heap = <<>>
    /\ cache = ServiceCache
    /\ callers = [t \in Threads |-> IdleThread]
    /\ params = <<>>
    /\ slices = <<>>
    /\ absent_metrics_strategy = ALL_OR_NOTHING
    /\ conditions_str = <<>>
    /\ op = "init"
    /\ arg = <<>>
    /\ out = <<>>
    /\ prune_all_entries = TRUE
    /\ column_tree = <<>>
    /\ table = <<>>

\* Thread t returns from the method name with result
Returns(t, name, result) ==
    /\ op' = name
    /\ arg' = t
    /\ out' = result
    /\ callers' = [callers EXCEPT ![t] = IdleThread]

\* Thread t goes on at pc
GoesOn(t, pc, force_reload, in_get) ==
    /\ callers' = [callers EXCEPT ![t] = [pc |-> pc, force_reload |-> force_reload, in_get |-> in_get]]
    /\ UNCHANGED <<op, arg, out>>

\* Time passes.
Tick ==
    /\ data.now < MaxTime
    /\ data' = [data EXCEPT !.now = @ + AGENT_HOSTING_CACHE_REFRESH_SECONDS + 1]
    /\ UNCHANGED <<slices, absent_metrics_strategy, conditions_str, op, arg, out, prune_all_entries, column_tree, params, table, heap, cache, callers>>

\* clear_cache()
ClearCache(t) ==
    /\ callers[t].pc = "idle"
    /\ cache' = ServiceCache
    /\ Returns(t, "clear_cache", [raised |-> FALSE])
    /\ UNCHANGED <<data, slices, absent_metrics_strategy, conditions_str, prune_all_entries, column_tree, params, table, heap>>

\* The body of load_entries_from_disk under the lock; the number of loads is
\* capped.
DiskLoad(metrics_path, force_reload) ==
    IF cache.entries = <<>> \/ force_reload \/ cache.metrics_path # <<metrics_path>>
    THEN /\ Cardinality(ListsOf(heap)) < MaxReloads
         /\ heap' = Append(heap, [type |-> "list", entries |-> 0])
         /\ cache' = [entries |-> <<Len(heap) + 1>>, agent_hosting_analytics |-> <<>>,
                      metrics_path |-> <<metrics_path>>, agent_hosting_config |-> <<>>,
                      agent_hosting_last_loaded |-> <<>>]
    ELSE UNCHANGED <<heap, cache>>

\* load_entries_from_disk(metrics_path, force_reload)
LoadEntriesFromDisk(t, metrics_path, force_reload) ==
    /\ callers[t].pc = "idle"
    /\ DiskLoad(metrics_path, force_reload)
    /\ Returns(t, "load_entries_from_disk", [raised |-> FALSE, entries |-> cache'.entries])
    /\ UNCHANGED <<data, slices, absent_metrics_strategy, conditions_str, prune_all_entries, column_tree, params, table>>

\* The body of load_entries_from_agent_hosting under the lock: a load makes
\* an entry list and the AgentHostingAnalytics object that holds it.
HostingLoad(current_config, force_reload) ==
    IF cache.entries = <<>> \/ force_reload \/ cache.agent_hosting_config # <<current_config>>
    THEN /\ Cardinality(ListsOf(heap)) < MaxReloads
         /\ heap' = heap \o <<[type |-> "list", entries |-> 0],
                               [type |-> "analytics", entries |-> Len(heap) + 1]>>
         /\ cache' = [entries |-> <<Len(heap) + 1>>, agent_hosting_analytics |-> <<Len(heap) + 2>>,
                      metrics_path |-> <<>>, agent_hosting_config |-> <<current_config>>,
                      agent_hosting_last_loaded |-> <<data.now>>]
    ELSE UNCHANGED <<heap, cache>>

\* load_entries_from_agent_hosting(url, key, force_reload)
LoadEntriesFromAgentHosting(t, force_reload) ==
    /\ callers[t].pc = "idle"
    /\ HostingLoad(HostingConfig, force_reload)
    /\ Returns(t, "load_entries_from_agent_hosting", [raised |-> FALSE, entries |-> cache'.entries])
    /\ UNCHANGED <<data, slices, absent_metrics_strategy, conditions_str, prune_all_entries, column_tree, params, table>>

\* load_entries_from_config(force_reload) up to the staleness check or, with
\* no agent hosting, as a whole
LoadEntriesFromConfig(t, force_reload) ==
    /\ callers[t].pc = "idle"
    /\ IF data.has_agent_hosting
       THEN /\ GoesOn(t, "stale", force_reload, FALSE)
            /\ UNCHANGED <<heap, cache>>
       ELSE IF data.has_metrics_path
       THEN /\ DiskLoad(SettingsPath, force_reload)
            /\ Returns(t, "load_entries_from_config", [raised |-> FALSE, entries |-> cache'.entries])
       ELSE /\ Returns(t, "load_entries_from_config", [raised |-> TRUE, entries |-> <<>>])
            /\ UNCHANGED <<heap, cache>>
    /\ UNCHANGED <<data, slices, absent_metrics_strategy, conditions_str, prune_all_entries, column_tree, params, table>>

\* get_agent_hosting_analytics(force_reload) up to its staleness check
GetAgentHostingAnalytics(t, force_reload) ==
    /\ callers[t].pc = "idle"
    /\ IF data.has_agent_hosting
       THEN GoesOn(t, "get_stale", force_reload, TRUE)
       ELSE Returns(t, "get_agent_hosting_analytics",
                    [raised |-> FALSE, analytics |-> <<>>, cached |-> cache.entries])
    /\ UNCHANGED <<data, slices, absent_metrics_strategy, conditions_str, prune_all_entries, column_tree, params, table, heap, cache>>

\* The method thread t is in
MethodOf(t) ==
    IF callers[t].in_get THEN "get_agent_hosting_analytics" ELSE "load_entries_from_config"

\* The pc after the staleness check at pc
AfterStale(pc) == IF pc \in {"get_stale", "get_stale_age"} THEN "stale" ELSE "load"

\* _is_agent_hosting_cache_stale, the read of "is None": stale when nothing
\* was loaded, otherwise the age is looked at next
IsStaleNone(t) ==
    /\ callers[t].pc \in {"get_stale", "stale"}
    /\ IF cache.agent_hosting_last_loaded = <<>>
       THEN GoesOn(t, AfterStale(callers[t].pc), TRUE, callers[t].in_get)
       ELSE GoesOn(t, IF callers[t].pc = "stale" THEN "stale_age" ELSE "get_stale_age",
                   callers[t].force_reload, callers[t].in_get)
    /\ UNCHANGED <<data, slices, absent_metrics_strategy, conditions_str, prune_all_entries, column_tree, params, table, heap, cache>>

\* _is_agent_hosting_cache_stale, time.time() - self._agent_hosting_last_loaded:
\* the second read of the field; None by now raises TypeError
IsStaleAge(t) ==
    /\ callers[t].pc \in {"get_stale_age", "stale_age"}
    /\ IF cache.agent_hosting_last_loaded = <<>>
       THEN Returns(t, MethodOf(t), [raised |-> TRUE])
       ELSE GoesOn(t, AfterStale(callers[t].pc),
                   callers[t].force_reload
                       \/ data.now - cache.agent_hosting_last_loaded[1] > AGENT_HOSTING_CACHE_REFRESH_SECONDS,
                   callers[t].in_get)
    /\ UNCHANGED <<data, slices, absent_metrics_strategy, conditions_str, prune_all_entries, column_tree, params, table, heap, cache>>

\* load_entries_from_config calls load_entries_from_agent_hosting
LoadFromConfig(t) ==
    /\ callers[t].pc = "load"
    /\ HostingLoad(HostingConfig, callers[t].force_reload)
    /\ IF callers[t].in_get
       THEN GoesOn(t, "get_return", FALSE, TRUE)
       ELSE Returns(t, "load_entries_from_config", [raised |-> FALSE, entries |-> cache'.entries])
    /\ UNCHANGED <<data, slices, absent_metrics_strategy, conditions_str, prune_all_entries, column_tree, params, table>>

\* get_agent_hosting_analytics: with self._lock: return self._agent_hosting_analytics;
\* cached is what the cache holds at the return
ReturnAnalytics(t) ==
    /\ callers[t].pc = "get_return"
    /\ Returns(t, "get_agent_hosting_analytics",
               [raised |-> FALSE, analytics |-> cache.agent_hosting_analytics,
                cached |-> cache.entries])
    /\ UNCHANGED <<data, slices, absent_metrics_strategy, conditions_str, prune_all_entries, column_tree, params, table, heap, cache>>

NextService ==
    \/ Tick
    \/ \E t \in Threads :
           \/ ClearCache(t)
           \/ \E force_reload \in BOOLEAN : LoadEntriesFromDisk(t, SettingsPath, force_reload)
           \/ \E force_reload \in BOOLEAN : LoadEntriesFromAgentHosting(t, force_reload)
           \/ \E force_reload \in BOOLEAN : LoadEntriesFromConfig(t, force_reload)
           \/ \E force_reload \in BOOLEAN : GetAgentHostingAnalytics(t, force_reload)
           \/ IsStaleNone(t)
           \/ IsStaleAge(t)
           \/ LoadFromConfig(t)
           \/ ReturnAnalytics(t)

SpecService == InitService /\ [][NextService]_vars

----------------------------------------------------------------------------
(* Claims on the MetricsCache. *)

\* The entries the cache holds
CachedEntries == EntriesOf(heap, cache.entries)

\* C25: while agent hosting is configured, get_agent_hosting_analytics
\* returns, under every interleaving with the other methods of the cache,
\* an analytics object and never None: the object that holds the entries
\* the cache holds at the return.
C25_AnalyticsOfCachedEntries ==
    (op = "get_agent_hosting_analytics" /\ data.has_agent_hosting) =>
        /\ ~out.raised
        /\ out.analytics # <<>>
        /\ <<heap[out.analytics[1]].entries>> = out.cached

\* The aggregated entries create_table makes rows of
AggregatedOf(entries, p) ==
    create_aggregation(sort_by_timestamp(categorize(entries)),
        AggregationParams(SliceConditionsOf(parse_condition_list(p.slices)),
                          p.prune_mode, p.absent_metrics_strategy)).entries

\* The value of a field: of a dict its "value", None of a missing field
ValueOfField(v) == IF v = None THEN None ELSE IF IsDict(v) THEN Get(v, "value") ELSE v

\* The value a data cell shows, None for an empty cell
ShownIn(cell) == Get(cell.values, "value")

\* C29: in the table of create_table the data cell of a row under the
\* column "/metrics/<name>" holds the value of the metric <name> of the
\* row's aggregated entry, and under "/metadata/<name>" the value of its
\* metadata field <name>, also when a metadata field and a metric share
\* the name.
C29_CellHoldsFieldOfItsColumn ==
    (op = "create_table" /\ ~out.raised /\ params.sort_by = NoSortBy) =>
        \A r \in 2..Len(table.rows) : \A c \in DOMAIN table.columns :
            \A f \in {ColumnField(table.columns[c].column_id)} :
                ShownIn(table.rows[r][c + 1]) =
                    ValueOfField(Get(AggregatedOf(arg, params)[r - 1]
                                        [IF table.columns[c].column_id = LeafId("metrics", f)
                                         THEN "metrics" ELSE "metadata"], f))

\* C19: whatever the callers do with the lists they loaded (categorize,
\* prune, create_table, create_logs_list), the cache keeps holding the entries
\* as they were read from the source, and every load returns exactly these:
\* no change made by a caller shows in what another caller or a later load gets.
C19_CachedEntriesOnlyChangeOnReload ==
    /\ ~cache.entries_is_none => CachedEntries = data
    /\ op = "load_entries" => out = data

----------------------------------------------------------------------------
(* Claims on the entries the engine is handed. *)

\* C20: after create_logs_list (and likewise create_table and
\* create_moving_aggregation) returns or raises, the caller's list and the
\* metadata and metrics of every entry in it are what they were before the
\* call.
C20_InputEntriesUntouched ==
    op \in {"create_logs_list", "create_table", "create_moving_aggregation"} => data = arg

====
